---- MODULE Spec2Model ----
(***************************************************************************)
(* Model of shufflr's track sequencing: the RoutingMonitor early-stop      *)
(* controller and SolveTravelingSalespersonProblem (shuffling.py), the     *)
(* distance model (track.py, artist.py, ComputeDistanceMatrix) with the    *)
(* weights of the Configuration, the arc costs handed to the solver, and   *)
(* CollectInputTracks and SavePlaylist (playlist.py).                      *)
(*                                                                         *)
(* The OR-tools routing solver is external.  It is modelled as a source of *)
(* solution events: at any moment before the search ends it may report a   *)
(* route through all real nodes with any objective value, and the search   *)
(* may end at any moment (deadline, or after a FinishCurrentSearch).       *)
(***************************************************************************)
EXTENDS Integers, Sequences, FiniteSets, TLC

\* ------------------------------------------------------------------ bounds
MaxSolutions == 3        \* solution events per search
MaxObjective == 2        \* small objective values are 0..MaxObjective
LargeObjective == 30     \* one objective value far above the small ones
MaxTimeStep == 1         \* clock ticks between two solution events: 0..MaxTimeStep
MaxTimeout == 1          \* improvementTimeout in clock ticks: 0..MaxTimeout
NumberOfLocations == 2   \* real nodes 0..NumberOfLocations-1; the depot is NumberOfLocations
MaxTracks == 2           \* length of the track list
MaxCalls == 1            \* direct Track.ComputeDistance calls of one caller
MaxPlaylists == 2        \* playlists the owner has before SavePlaylist
MaxInputPlaylists == 2   \* input playlists handed to CollectInputTracks
MaxPlaylistLength == 2   \* track ids of one input playlist

VARIABLES
  pc,                         \* position in SolveTravelingSalespersonProblem
  now,                        \* datetime.datetime.now(), in clock ticks
  improvementSize,            \* RoutingMonitor._improvementSize, a rational [num, den]
  improvementTimeout,         \* RoutingMonitor._improvementTimeout, in clock ticks
  solutions,                  \* RoutingMonitor._solutions
  bestSolutions,              \* RoutingMonitor._bestSolutions
  didHitImprovementTimeout,   \* RoutingMonitor._didHitImprovementTimeout
  comparisonSolution,         \* local of the latest __call__
  stopSignals,                \* callbacks (by number) that called solver().FinishCurrentSearch()
  callbackErrors,             \* callbacks (by number) that raised ZeroDivisionError
  stoppingReason,             \* local of SolveTravelingSalespersonProblem
  raised,                     \* exception SolveTravelingSalespersonProblem ended with
  result,                     \* node indices SolveTravelingSalespersonProblem returned
  dpc,                        \* position of the distance computations
  tracks,                     \* the track list handed to ComputeDistanceMatrix
  configuration,              \* the Configuration (its 11 weights)
  cache,                      \* GenreDistanceComputer._cache
  calls,                      \* number of direct Track.ComputeDistance calls so far
  lastCall,                   \* the latest Track.ComputeDistance call and its outcome
  distanceMatrix,             \* what ComputeDistanceMatrix returned
  distanceRaised,             \* exception ComputeDistanceMatrix ended with
  integerDistanceMatrix,      \* local of SolveTravelingSalespersonProblem: the arc costs
  routingIndexManager,        \* local of SolveTravelingSalespersonProblem: nodes, vehicles, depot
  ppc,                        \* position of SavePlaylist
  playlists,                  \* the owner's playlists at the service, in listing order
  nextPlaylistID,             \* the id the service gives to the next playlist created
  playlistName,               \* playlistSpecifier.playlistName
  overwrite,                  \* the argument overwrite of SavePlaylist
  trackIDs,                   \* the argument trackIDs of SavePlaylist
  clientCalls,                \* the calls SavePlaylist made on the client, in order
  playlistRaised,             \* exception SavePlaylist ended with
  cpc,                        \* position of CollectInputTracks
  trackIDsOfPlaylists,        \* local of CollectInputTracks: the track id list of each input playlist
  playlistWeights,            \* the argument playlistWeights of CollectInputTracks
  criticalPlaylistIndex,      \* local of CollectInputTracks, counted from 1; 0 before it is assigned
  numbersOfSongs,             \* numberOfSongs of each pass of the loop; 0 where it is not assigned
  collectedTrackIDs,          \* local trackIDs of CollectInputTracks
  collectReturned,            \* the ids of the tracks CollectInputTracks returned
  collectRaised               \* exception CollectInputTracks ended with

routingVars == <<pc, now, improvementSize, improvementTimeout, solutions, bestSolutions,
                 didHitImprovementTimeout, comparisonSolution, stopSignals, callbackErrors,
                 stoppingReason, raised, result>>

distanceVars == <<dpc, tracks, configuration, cache, calls, lastCall, distanceMatrix, distanceRaised,
                  integerDistanceMatrix, routingIndexManager>>

playlistVars == <<ppc, playlists, nextPlaylistID, playlistName, overwrite, trackIDs,
                  clientCalls, playlistRaised>>

collectVars == <<cpc, trackIDsOfPlaylists, playlistWeights, criticalPlaylistIndex, numbersOfSongs,
                 collectedTrackIDs, collectReturned, collectRaised>>

vars == <<routingVars, distanceVars, playlistVars, collectVars>>

\* ------------------------------------------------------------- Solution
\* Python's None where a Solution is expected; real Solution objects have id >= 1.
\* The id is the object's identity (the order of construction): the two lists of
\* the monitor hold references to Solution objects, not copies.
NoSolution == [id |-> 0, nodeIndices |-> <<>>, objectiveValue |-> 0, time |-> 0]

Solution(id, nodeIndices, objectiveValue, time) ==
  [id |-> id, nodeIndices |-> nodeIndices, objectiveValue |-> objectiveValue, time |-> time]

ObjectiveValues == (0 .. MaxObjective) \cup {LargeObjective}

\* improvementSize as the rational num/den, den > 0 (--tspImprovementSize is
\* read with type=float: any value, negative or above 1 included)
ImprovementSizes ==
  { [num |-> -1, den |-> 2], [num |-> 0, den |-> 1], [num |-> 1, den |-> 20], [num |-> 1, den |-> 2],
    [num |-> 1, den |-> 1], [num |-> 2, den |-> 1] }

\* Configuration.__init__: tspImprovementSize = 0.05
DefaultImprovementSize == [num |-> 1, den |-> 20]

\* ------------------------------------------------- the optimizer's routes
Nodes == 0 .. (NumberOfLocations - 1)
StartIndex == NumberOfLocations       \* routingModel.Start(0): the depot
EndIndex == NumberOfLocations + 1     \* the end index of vehicle 0

\* every order in which the vehicle can visit all real nodes
Routes ==
  { r \in [1 .. NumberOfLocations -> Nodes] :
      \A i, j \in 1 .. NumberOfLocations : i # j => r[i] # r[j] }

\* the successor links (NextVar values) of the assignment that visits route
NextVar(route) ==
  [ index \in Nodes \cup {StartIndex} |->
      IF index = StartIndex
        THEN (IF NumberOfLocations = 0 THEN EndIndex ELSE route[1])
        ELSE LET position == CHOOSE p \in 1 .. NumberOfLocations : route[p] = index
             IN  IF position = NumberOfLocations THEN EndIndex ELSE route[position + 1] ]

\* routingIndexManager.IndexToNode for the indices of real nodes
IndexToNode(index) == index

RECURSIVE WalkRoute(_, _, _)
WalkRoute(next, index, indices) ==
  IF index = EndIndex
    THEN indices
    ELSE WalkRoute(next, next[index], Append(indices, IndexToNode(index)))

\* variant: the walk begins at the start index itself
GetSolutionNodeIndicesFromStart(next) == WalkRoute(next, StartIndex, <<>>)

\* RoutingMonitor._GetSolutionNodeIndices
GetSolutionNodeIndices(next) == WalkRoute(next, next[StartIndex], <<>>)

\* ------------------------------------------------------ RoutingMonitor
\* variant: the latest solution instead of the best one
bestKnownSolutionLatest ==
  IF Len(solutions) > 0 THEN solutions[Len(solutions)] ELSE NoSolution

\* variant: the best solution known when the stop was first requested
bestKnownSolutionAtStop ==
  IF Len(bestSolutions) = 0 THEN NoSolution
  ELSE IF stopSignals = {} THEN bestSolutions[Len(bestSolutions)]
  ELSE bestSolutions[CHOOSE k \in stopSignals : \A l \in stopSignals : k <= l]

\* RoutingMonitor.bestKnownSolution
bestKnownSolution ==
  IF Len(bestSolutions) > 0 THEN bestSolutions[Len(bestSolutions)] ELSE NoSolution

RECURSIVE SearchFrom(_, _, _, _)
SearchFrom(sols, bests, i, queryTime) ==
  IF i = 0 THEN NoSolution
  ELSE IF sols[i].time <= queryTime THEN bests[i]
  ELSE SearchFrom(sols, bests, i - 1, queryTime)

RECURSIVE SearchUpFrom(_, _, _, _)
SearchUpFrom(sols, bests, i, queryTime) ==
  IF i > Len(sols) THEN NoSolution
  ELSE IF sols[i].time <= queryTime THEN bests[i]
  ELSE SearchUpFrom(sols, bests, i + 1, queryTime)

\* variant: the oldest entry first (the lists not reversed)
SearchBestSolutionByTimeOldestFirst(sols, bests, queryTime) ==
  SearchUpFrom(sols, bests, 1, queryTime)

RECURSIVE SearchStrictlyBefore(_, _, _, _)
SearchStrictlyBefore(sols, bests, i, queryTime) ==
  IF i = 0 THEN NoSolution
  ELSE IF sols[i].time < queryTime THEN bests[i]
  ELSE SearchStrictlyBefore(sols, bests, i - 1, queryTime)

RECURSIVE SearchSolutionFrom(_, _, _, _)
SearchSolutionFrom(sols, bests, i, queryTime) ==
  IF i = 0 THEN NoSolution
  ELSE IF sols[i].time <= queryTime THEN sols[i]
  ELSE SearchSolutionFrom(sols, bests, i - 1, queryTime)

\* variant: the solution logged at that time instead of the best known then
SearchSolutionByTime(sols, bests, queryTime) ==
  SearchSolutionFrom(sols, bests, Len(sols), queryTime)

\* variant: solution.time < queryTime
SearchBestSolutionByTimeStrict(sols, bests, queryTime) ==
  SearchStrictlyBefore(sols, bests, Len(sols), queryTime)

\* RoutingMonitor._SearchBestSolutionByTime: the newest entry first
SearchBestSolutionByTime(sols, bests, queryTime) ==
  SearchFrom(sols, bests, Len(sols), queryTime)

\* variant: the current solution always
ChooseBestSolutionCurrent(bests, currentSolution) == currentSolution

\* variant: a tie keeps the older solution (< for <=)
ChooseBestSolutionStrict(bests, currentSolution) ==
  IF (Len(bests) = 0) \/ (currentSolution.objectiveValue < bests[Len(bests)].objectiveValue)
    THEN currentSolution
    ELSE bests[Len(bests)]

\* the choice of the best solution in __call__
ChooseBestSolution(bests, currentSolution) ==
  IF (Len(bests) = 0) \/ (currentSolution.objectiveValue <= bests[Len(bests)].objectiveValue)
    THEN currentSolution
    ELSE bests[Len(bests)]

\* variant: numerator / denominator <= size
RatioIsBelowOrEqual(numerator, denominator, size) ==
  IF denominator > 0
    THEN numerator * size.den <= size.num * denominator
    ELSE numerator * size.den >= size.num * denominator

\* variant: numerator / denominator > size
RatioIsAbove(numerator, denominator, size) ==
  IF denominator > 0
    THEN numerator * size.den > size.num * denominator
    ELSE numerator * size.den < size.num * denominator

\* numerator / denominator < size, for denominator # 0 (Python's true division)
RatioIsBelow(numerator, denominator, size) ==
  IF denominator > 0
    THEN numerator * size.den < size.num * denominator
    ELSE numerator * size.den > size.num * denominator

\* RoutingMonitor.__call__, invoked by the solver at a solution; dt is the time
\* that passed since the previous event
AtSolutionCallback(route, objectiveValue, dt) ==
  /\ pc = "searching"
  /\ Len(solutions) < MaxSolutions
  /\ LET callNumber == Len(solutions) + 1
         time == now + dt
         currentSolution ==
           Solution(callNumber, GetSolutionNodeIndices(NextVar(route)), objectiveValue, time)
         bestSolution == ChooseBestSolution(bestSolutions, currentSolution)
         sols == Append(solutions, currentSolution)
         bests == Append(bestSolutions, bestSolution)
         comparison == SearchBestSolutionByTime(sols, bests, time - improvementTimeout)
         numerator == comparison.objectiveValue - bestSolution.objectiveValue
         denominator == bests[1].objectiveValue - bestSolution.objectiveValue
     IN  /\ now' = time
         /\ solutions' = sols
         /\ bestSolutions' = bests
         /\ comparisonSolution' = comparison
         /\ IF comparison = NoSolution
              THEN UNCHANGED <<didHitImprovementTimeout, stopSignals, callbackErrors>>
              ELSE IF denominator = 0
                THEN \* ZeroDivisionError leaves __call__ before line 102
                     /\ callbackErrors' = callbackErrors \cup {callNumber}
                     /\ UNCHANGED <<didHitImprovementTimeout, stopSignals>>
                ELSE IF RatioIsBelow(numerator, denominator, improvementSize)
                  THEN /\ didHitImprovementTimeout' = TRUE
                       /\ stopSignals' = stopSignals \cup {callNumber}
                       /\ UNCHANGED callbackErrors
                  ELSE UNCHANGED <<didHitImprovementTimeout, stopSignals, callbackErrors>>
  /\ UNCHANGED <<pc, improvementSize, improvementTimeout, stoppingReason, raised, result>>
  /\ UNCHANGED <<distanceVars, playlistVars, collectVars>>

\* SolveTravelingSalespersonProblem from the return of SolveWithParameters on
\* (plot = False).  The solver returns None when it found no solution, which
\* is when it never reported one.
SolveWithParametersReturns ==
  /\ pc = "searching"
  /\ LET solutionIsNone == (Len(solutions) = 0)
     IN  /\ stoppingReason' =
               (IF didHitImprovementTimeout THEN "improvement timeout" ELSE "timeout")
         /\ IF solutionIsNone
              THEN \* solution.ObjectiveValue() on None, line 307
                   /\ pc' = "raised"
                   /\ raised' = "AttributeError"
                   /\ UNCHANGED result
              ELSE IF bestKnownSolution = NoSolution
                THEN /\ pc' = "raised"
                     /\ raised' = "RuntimeError: Could not find a solution."
                     /\ UNCHANGED result
                ELSE /\ pc' = "returned"
                     /\ result' = bestKnownSolution.nodeIndices
                     /\ UNCHANGED raised
  /\ UNCHANGED <<now, improvementSize, improvementTimeout, solutions, bestSolutions,
                 didHitImprovementTimeout, comparisonSolution, stopSignals, callbackErrors>>
  /\ UNCHANGED <<distanceVars, playlistVars, collectVars>>

\* An exception raised inside the solution callback is handed to the solver's
\* callback wrapper, which is outside this repository: the exception may
\* surface from SolveWithParameters.
SolveWithParametersRaises ==
  /\ pc = "searching"
  /\ callbackErrors # {}
  /\ pc' = "raised"
  /\ raised' = "ZeroDivisionError"
  /\ UNCHANGED <<now, improvementSize, improvementTimeout, solutions, bestSolutions,
                 didHitImprovementTimeout, comparisonSolution, stopSignals, callbackErrors,
                 stoppingReason, result>>
  /\ UNCHANGED <<distanceVars, playlistVars, collectVars>>

\* ======================================================= distance model
\* Python floats are modelled as exact rationals [num, den] in lowest terms,
\* den > 0.  A distance that Python obtains from math.sqrt of a weighted sum
\* is represented by that sum (its square): Track.ComputeDistance yields the
\* field squared.
\* Python evaluates an operand once and binds the value to a name; here a
\* value is bound once by drawing it from the singleton set that holds it.
RECURSIVE GCD(_, _)
GCD(a, b) ==
  IF b = 0 THEN a ELSE CHOOSE g \in { GCD(y, x % y) : x \in {a}, y \in {b} } : TRUE

Abs(x) == IF x < 0 THEN -x ELSE x

Rat(n, d) ==
  CHOOSE r \in
    { LET g == GCD(Abs(x), Abs(y))
          sign == IF y < 0 THEN -1 ELSE 1
      IN  [num |-> (sign * x) \div g, den |-> (sign * y) \div g] : x \in {n}, y \in {d} } : TRUE

Zero == [num |-> 0, den |-> 1]
One == [num |-> 1, den |-> 1]
\* Python's None where a float is expected
NoneDistance == [num |-> 0, den |-> 0]

RAdd(a, b) ==
  CHOOSE r \in { Rat(x.num * y.den + y.num * x.den, x.den * y.den) : x \in {a}, y \in {b} } : TRUE
RSub(a, b) ==
  CHOOSE r \in { Rat(x.num * y.den - y.num * x.den, x.den * y.den) : x \in {a}, y \in {b} } : TRUE
RMul(a, b) ==
  CHOOSE r \in { Rat(x.num * y.num, x.den * y.den) : x \in {a}, y \in {b} } : TRUE
\* variant: the difference with its sign
RSigned(a) == a

RAbs(a) == CHOOSE r \in { [num |-> Abs(x.num), den |-> x.den] : x \in {a} } : TRUE
RLess(a, b) == \E x \in {a}, y \in {b} : x.num * y.den < y.num * x.den
RMin(a, b) == CHOOSE r \in { IF RLess(y, x) THEN y ELSE x : x \in {a}, y \in {b} } : TRUE
RSquare(a) == CHOOSE r \in { RMul(x, x) : x \in {a} } : TRUE

\* floor of the square root of a natural number
ISqrt(n) == CHOOSE r \in 0 .. n : r * r <= n /\ (r + 1) * (r + 1) > n

\* math.sqrt, exact where numerator and denominator are perfect squares (the
\* genre table below is chosen so that every genre distance is one)
RSqrt(a) == CHOOSE r \in { Rat(ISqrt(x.num), ISqrt(x.den)) : x \in {a} } : TRUE

RECURSIVE RSum(_, _)
RSum(values, i) == IF i = 0 THEN Zero ELSE RAdd(RSum(values, i - 1), values[i])

\* variant: the largest instead of the smallest
RECURSIVE RMaximum(_, _)
RMaximum(values, i) ==
  IF i = 1 THEN values[1]
  ELSE CHOOSE r \in { IF RLess(x, y) THEN y ELSE x : x \in {RMaximum(values, i - 1)}, y \in {values[i]} } : TRUE

RECURSIVE RMinimum(_, _)
RMinimum(values, i) ==
  IF i = 1 THEN values[1] ELSE RMin(RMinimum(values, i - 1), values[i])

\* statistics.mean of a non-empty list
Mean(values) ==
  CHOOSE r \in { RMul(RSum(v, Len(v)), Rat(1, Len(v))) : v \in {values} } : TRUE

Range(seq) == { seq[i] : i \in DOMAIN seq }

\* [(x, y) for x in seq1 for y in seq2]
CrossProduct(seq1, seq2) ==
  [ k \in 1 .. (Len(seq1) * Len(seq2)) |->
      << seq1[((k - 1) \div Len(seq2)) + 1], seq2[((k - 1) % Len(seq2)) + 1] >> ]

\* ------------------------------------------------ GenreDistanceComputer
\* GenreDistanceComputer._data restricted to the genres the artists below
\* carry: label -> (x, y, r, g, b).  "vaporwave" is a label absent from it.
GenreData ==
  ("rock" :> << Zero, Zero, Zero, Zero, Zero >>) @@
  ("pop" :> << Rat(1, 2), Rat(1, 4), Zero, Zero, Zero >>) @@
  ("jazz" :> << One, Rat(1, 2), Zero, Zero, Zero >>)

EmptyCache == [ cacheKey \in {} |-> NoneDistance ]

\* the distance of two genres of the table, lines 59-66
GenreDataDistance(genreData1, genreData2) ==
  RSqrt(RMul(
    RAdd(RAdd(RAdd(RAdd(
      RSquare(RSub(genreData1[1], genreData2[1])),
      RSquare(RSub(genreData1[2], genreData2[2]))),
      RSquare(RSub(genreData1[3], genreData2[3]))),
      RSquare(RSub(genreData1[4], genreData2[4]))),
      RSquare(RSub(genreData1[5], genreData2[5]))),
    Rat(1, 5)))

\* variant: an unknown genre taken as distance 0.0
GenreComputeDistanceUnknownAsZero(c, genre1, genre2) ==
  LET cacheKey == {genre1, genre2}
  IN  IF cacheKey \in DOMAIN c
        THEN [value |-> c[cacheKey], cache |-> c]
        ELSE IF (genre1 \notin DOMAIN GenreData) \/ (genre2 \notin DOMAIN GenreData)
          THEN [value |-> Zero, cache |-> (cacheKey :> Zero) @@ c]
          ELSE LET distance == GenreDataDistance(GenreData[genre1], GenreData[genre2])
               IN  [value |-> distance, cache |-> (cacheKey :> distance) @@ c]

\* variant: the cache keyed by the first genre alone
GenreComputeDistanceKeyedByFirst(c, genre1, genre2) ==
  LET cacheKey == {genre1}
  IN  IF cacheKey \in DOMAIN c
        THEN [value |-> c[cacheKey], cache |-> c]
        ELSE IF (genre1 \notin DOMAIN GenreData) \/ (genre2 \notin DOMAIN GenreData)
          THEN [value |-> NoneDistance, cache |-> (cacheKey :> NoneDistance) @@ c]
          ELSE LET distance == GenreDataDistance(GenreData[genre1], GenreData[genre2])
               IN  [value |-> distance, cache |-> (cacheKey :> distance) @@ c]

\* GenreDistanceComputer.ComputeDistance on the cache c: the value returned
\* and the cache afterwards
GenreComputeDistance(c, genre1, genre2) ==
  LET cacheKey == {genre1, genre2}
  IN  IF cacheKey \in DOMAIN c
        THEN [value |-> c[cacheKey], cache |-> c]
        ELSE IF (genre1 \notin DOMAIN GenreData) \/ (genre2 \notin DOMAIN GenreData)
          THEN [value |-> NoneDistance, cache |-> (cacheKey :> NoneDistance) @@ c]
          ELSE LET distance == GenreDataDistance(GenreData[genre1], GenreData[genre2])
               IN  [value |-> distance, cache |-> (cacheKey :> distance) @@ c]

\* --------------------------------------------------------------- Artist
Artist(id, genres) == [id |-> id, genres |-> genres]

\* the artists the catalog resolves (Client.QueryArtist)
ArtistCatalog ==
  ("a1" :> Artist("a1", << "rock", "pop" >>)) @@
  ("a2" :> Artist("a2", << "jazz", "vaporwave" >>)) @@
  ("a3" :> Artist("a3", << >>)) @@
  ("a4" :> Artist("a4", << "vaporwave" >>)) @@
  ("a5" :> Artist("a5", << "pop" >>))

QueryArtist(artistID) == ArtistCatalog[artistID]

\* Artist.__eq__
ArtistEq(self, other) == self.id = other.id

\* the list comprehension of Artist.ComputeDistance: one
\* GenreDistanceComputer.ComputeDistance call per pair, in order
RECURSIVE GenreDistances(_, _, _, _)
GenreDistances(c, genrePairs, i, genreDistances) ==
  IF i > Len(genrePairs)
    THEN [values |-> genreDistances, cache |-> c]
    ELSE CHOOSE out \in
           { GenreDistances(r.cache, genrePairs, i + 1, Append(genreDistances, r.value)) :
               r \in { GenreComputeDistance(c, genrePairs[i][1], genrePairs[i][2]) } } : TRUE

\* Artist.ComputeDistance on the cache c
ArtistComputeDistance(c, self, other) ==
  IF ArtistEq(self, other)
    THEN [value |-> Zero, cache |-> c]
    ELSE CHOOSE out \in
           { LET nonNoneGenreDistances == SelectSeq(r.values, LAMBDA d : d # NoneDistance)
             IN  [ value |-> IF Len(nonNoneGenreDistances) > 0
                               THEN RMinimum(nonNoneGenreDistances, Len(nonNoneGenreDistances))
                               ELSE One,
                   cache |-> r.cache ] :
               r \in { GenreDistances(c, CrossProduct(self.genres, other.genres), 1, << >>) } } : TRUE

\* ------------------------------------------------------------------ Key
NoKey == "None"

\* Key.FromSpotifyNotation: the keys by pitch class 0 .. 11, for mode 1 and mode 0
MajorKeys ==
  << "cMajor", "dFlatMajor", "dMajor", "eFlatMajor", "eMajor", "fMajor",
     "fSharpMajor", "gMajor", "aFlatMajor", "aMajor", "bFlatMajor", "bMajor" >>

MinorKeys ==
  << "cMinor", "dFlatMinor", "dMinor", "eFlatMinor", "eMinor", "fMinor",
     "fSharpMinor", "gMinor", "aFlatMinor", "aMinor", "bFlatMinor", "bMinor" >>

\* the members of the enum Key
Key == Range(MajorKeys) \cup Range(MinorKeys)

\* variant: the two modes taken for each other
FromSpotifyNotationModesSwapped(spotifyKey, spotifyMode) ==
  IF spotifyKey = -1 THEN NoKey
  ELSE IF spotifyMode = 1 THEN MinorKeys[spotifyKey + 1] ELSE MajorKeys[spotifyKey + 1]

FromSpotifyNotation(spotifyKey, spotifyMode) ==
  IF spotifyKey = -1 THEN NoKey
  ELSE IF spotifyMode = 1 THEN MajorKeys[spotifyKey + 1] ELSE MinorKeys[spotifyKey + 1]

gCompatibleKeys ==
  ("cMajor" :> {"cMajor", "aMinor", "gMajor", "fMajor"}) @@
  ("cMinor" :> {"cMinor", "eFlatMajor", "gMinor", "fMinor"}) @@
  ("dFlatMajor" :> {"dFlatMajor", "bFlatMinor", "aFlatMajor", "fSharpMajor"}) @@
  ("dFlatMinor" :> {"dFlatMinor", "eMajor", "aFlatMinor", "fSharpMinor"}) @@
  ("dMajor" :> {"dMajor", "bMinor", "aMajor", "gMajor"}) @@
  ("dMinor" :> {"dMinor", "fMajor", "aMinor", "gMinor"}) @@
  ("eFlatMajor" :> {"eFlatMajor", "cMinor", "bFlatMajor", "aFlatMajor"}) @@
  ("eFlatMinor" :> {"eFlatMinor", "fSharpMajor", "bFlatMinor", "aFlatMinor"}) @@
  ("eMajor" :> {"eMajor", "dFlatMinor", "bMajor", "aMajor"}) @@
  ("eMinor" :> {"eMinor", "gMajor", "bMinor", "aMinor"}) @@
  ("fMajor" :> {"fMajor", "dMinor", "cMajor", "bFlatMajor"}) @@
  ("fMinor" :> {"fMinor", "aFlatMajor", "cMinor", "bFlatMinor"}) @@
  ("fSharpMajor" :> {"fSharpMajor", "eFlatMinor", "dFlatMajor", "bMajor"}) @@
  ("fSharpMinor" :> {"fSharpMinor", "aMajor", "dFlatMinor", "bMinor"}) @@
  ("gMajor" :> {"gMajor", "eMinor", "dMajor", "cMajor"}) @@
  ("gMinor" :> {"gMinor", "bFlatMajor", "dMinor", "cMinor"}) @@
  ("aFlatMajor" :> {"aFlatMajor", "fMinor", "eFlatMajor", "dFlatMajor"}) @@
  ("aFlatMinor" :> {"aFlatMinor", "bMajor", "eFlatMinor", "dFlatMinor"}) @@
  ("aMajor" :> {"aMajor", "fSharpMinor", "eMajor", "dMajor"}) @@
  ("aMinor" :> {"aMinor", "cMajor", "eMinor", "dMinor"}) @@
  ("bFlatMajor" :> {"bFlatMajor", "gMinor", "fMajor", "eFlatMajor"}) @@
  ("bFlatMinor" :> {"bFlatMinor", "dFlatMajor", "fMinor", "eFlatMinor"}) @@
  ("bMajor" :> {"bMajor", "aFlatMinor", "fSharpMajor", "eMajor"}) @@
  ("bMinor" :> {"bMinor", "dMajor", "fSharpMinor", "eMinor"})

\* variant: a table lookup that misses one relative key
IsCompatibleWithoutRelativeMinor(self, other) == other \in (gCompatibleKeys[self] \ {"aMinor"})

\* Key.IsCompatible
IsCompatible(self, other) == other \in gCompatibleKeys[self]

\* ---------------------------------------------------------------- Track
\* a Track; the seven [0, 1] features are given in tenths, the tempo in BPM
Track(id, artistIDs, key, acousticness, danceability, energy, instrumentalness, liveness, speechiness, tempo, valence) ==
  [ id |-> id, artistIDs |-> artistIDs, key |-> key,
    acousticness |-> Rat(acousticness, 10), danceability |-> Rat(danceability, 10),
    energy |-> Rat(energy, 10), instrumentalness |-> Rat(instrumentalness, 10),
    liveness |-> Rat(liveness, 10), speechiness |-> Rat(speechiness, 10),
    tempo |-> Rat(tempo, 1), valence |-> Rat(valence, 10) ]

\* the tracks the lists are drawn from: two with the same id and nothing else
\* in common, one without artists, two without key that differ in the id and
\* the artist, two alike in all but id, and one that differs from these two
\* in its id and in two further artists
TrackCatalog ==
  { Track("t1", << "a1" >>, "cMajor", 5, 5, 5, 5, 5, 5, 120, 5),
    Track("t2", << "a1", "a2" >>, "aMinor", 5, 6, 5, 5, 5, 5, 124, 7),
    Track("t3", << "a3" >>, NoKey, 0, 10, 2, 9, 1, 3, 150, 0),
    Track("t1", << "a2", "a4" >>, "dFlatMinor", 9, 1, 8, 0, 7, 2, 90, 10),
    Track("t5", << >>, "gMajor", 3, 3, 3, 3, 3, 3, 121, 3),
    Track("t6", << "a1" >>, "cMajor", 5, 5, 5, 5, 5, 5, 120, 5),
    Track("t7", << "a1", "a2", "a5" >>, "cMajor", 5, 5, 5, 5, 5, 5, 120, 5),
    Track("t8", << "a5" >>, NoKey, 0, 10, 2, 9, 1, 3, 150, 0) }

TrackLists == UNION { [1 .. n -> TrackCatalog] : n \in 0 .. MaxTracks }

\* the 11 weights of a Configuration
Weights(acousticness, danceability, differentArtist, energy, genre, instrumentalness, key, liveness, speechiness, tempo, valence) ==
  [ acousticnessWeight |-> acousticness, danceabilityWeight |-> danceability,
    differentArtistWeight |-> differentArtist, energyWeight |-> energy,
    genreWeight |-> genre, instrumentalnessWeight |-> instrumentalness,
    keyWeight |-> key, livenessWeight |-> liveness, speechinessWeight |-> speechiness,
    tempoWeight |-> tempo, valenceWeight |-> valence ]

\* Configuration.__init__
DefaultConfiguration == Weights(1, 1, 5, 1, 3, 1, 3, 1, 1, 2, 1)

\* the configurations drawn: the default, one without the artist, genre and
\* key weights, one with the genre weight alone, one with a negative
\* weight (ParseArguments and ReadFile accept any float), one with the valence
\* weight alone, one with the tempo weight alone, and one with the artist and
\* key weights alone
Configurations ==
  { DefaultConfiguration,
    Weights(1, 1, 0, 1, 0, 1, 0, 1, 1, 2, 1),
    Weights(0, 0, 0, 0, 1, 0, 0, 0, 0, 0, 0),
    Weights(-1, 0, 0, 0, 0, 0, 0, 0, 0, 0, 0),
    Weights(0, 0, 0, 0, 0, 0, 0, 0, 0, 0, 4),
    Weights(0, 0, 0, 0, 0, 0, 0, 0, 0, 2, 0),
    Weights(0, 0, 5, 0, 0, 0, 3, 0, 0, 0, 0) }

\* variant: equality of all attributes instead of the id
TrackEqAllAttributes(self, other) == self = other

\* Track.__eq__
TrackEq(self, other) == self.id = other.id

\* variant: 1.0 where the two tracks share no artist
DifferentArtistDistanceOfDisjoint(self, other, config) ==
  IF config.differentArtistWeight > 0
    THEN (IF Range(self.artistIDs) \cap Range(other.artistIDs) # {} THEN Zero ELSE One)
    ELSE Zero

\* variant: the shared artist ignored
DifferentArtistDistanceAlwaysZero(self, other, config) == Zero

\* differentArtistDistance of Track.ComputeDistance, lines 156-159
DifferentArtistDistance(self, other, config) ==
  IF config.differentArtistWeight > 0
    THEN (IF Range(self.artistIDs) \cap Range(other.artistIDs) # {} THEN One ELSE Zero)
    ELSE Zero

\* variant: two undefined keys taken as distance 0.0
KeyDistanceUndefinedAsZero(self, other, config) ==
  IF config.keyWeight > 0
    THEN (IF \/ (self.key = NoKey) /\ (other.key = NoKey)
             \/ (self.key # NoKey) /\ (other.key # NoKey) /\ IsCompatible(self.key, other.key)
            THEN Zero ELSE One)
    ELSE Zero

\* keyDistance of Track.ComputeDistance, lines 171-175
KeyDistance(self, other, config) ==
  IF config.keyWeight > 0
    THEN (IF (self.key # NoKey) /\ (other.key # NoKey) /\ IsCompatible(self.key, other.key)
            THEN Zero ELSE One)
    ELSE Zero

\* the generator handed to statistics.mean in Track.ComputeDistance: one
\* Artist.ComputeDistance call per pair of artist ids, in order
RECURSIVE ArtistDistances(_, _, _, _)
ArtistDistances(c, artistIDPairs, i, artistDistances) ==
  IF i > Len(artistIDPairs)
    THEN [values |-> artistDistances, cache |-> c]
    ELSE CHOOSE out \in
           { ArtistDistances(r.cache, artistIDPairs, i + 1, Append(artistDistances, r.value)) :
               r \in { ArtistComputeDistance(c, QueryArtist(artistIDPairs[i][1]),
                                             QueryArtist(artistIDPairs[i][2])) } } : TRUE

\* variant: the component without its weight
TermUnweighted(weight, component) == RSquare(component)

\* weight * component ** 2.0
Term(weight, component) == RMul(Rat(weight, 1), RSquare(component))

\* Track.ComputeDistance on the cache c: the exception raised or the square of
\* the distance returned, the cache afterwards, and the number of QueryArtist calls
TrackComputeDistance(c, self, other, config) ==
  IF TrackEq(self, other)
    THEN [raised |-> "none", squared |-> Zero, cache |-> c, artistQueries |-> 0]
    ELSE
      LET maximumTempoDifference == 10
          differentArtistDistance == DifferentArtistDistance(self, other, config)
          artistIDPairs == CrossProduct(self.artistIDs, other.artistIDs)
          keyDistance == KeyDistance(self, other, config)
          tempoDistance ==
            RMin(RMul(RAbs(RSub(self.tempo, other.tempo)), Rat(1, maximumTempoDifference)), One)
          artistQueries == IF config.genreWeight > 0 THEN 2 * Len(artistIDPairs) ELSE 0
          Radicand(genreDistance) ==
            RAdd(RAdd(RAdd(RAdd(RAdd(RAdd(RAdd(RAdd(RAdd(RAdd(
              Term(config.acousticnessWeight, RSub(self.acousticness, other.acousticness)),
              Term(config.danceabilityWeight, RSub(self.danceability, other.danceability))),
              Term(config.differentArtistWeight, differentArtistDistance)),
              Term(config.energyWeight, RSub(self.energy, other.energy))),
              Term(config.genreWeight, genreDistance)),
              Term(config.instrumentalnessWeight, RSub(self.instrumentalness, other.instrumentalness))),
              Term(config.keyWeight, keyDistance)),
              Term(config.livenessWeight, RSub(self.liveness, other.liveness))),
              Term(config.speechinessWeight, RSub(self.speechiness, other.speechiness))),
              Term(config.tempoWeight, tempoDistance)),
              Term(config.valenceWeight, RSub(self.valence, other.valence)))
      IN  IF (config.genreWeight > 0) /\ (Len(artistIDPairs) = 0)
            THEN \* statistics.mean of no data
                 [raised |-> "StatisticsError", squared |-> Zero, cache |-> c, artistQueries |-> 0]
            ELSE CHOOSE out \in
                   { CHOOSE distance \in
                       { IF RLess(radicand, Zero)
                           THEN \* math.sqrt of a negative number
                                [raised |-> "ValueError", squared |-> Zero, cache |-> genre.cache,
                                 artistQueries |-> artistQueries]
                           ELSE [raised |-> "none", squared |-> radicand, cache |-> genre.cache,
                                 artistQueries |-> artistQueries] :
                           radicand \in { Radicand(IF config.genreWeight > 0
                                                     THEN Mean(genre.values) ELSE Zero) } } : TRUE :
                       genre \in { IF config.genreWeight > 0
                                     THEN ArtistDistances(c, artistIDPairs, 1, << >>)
                                     ELSE [values |-> << >>, cache |-> c] } } : TRUE

\* ------------------------------------------------- ComputeDistanceMatrix
\* np.zeros((n, n)); rows and columns are counted from 1 here
ZeroMatrix(n) == [ cell \in (1 .. n) \X (1 .. n) |-> Zero ]

\* variant: the comparison reversed, so that the mirrored entry is read before
\* it is computed
ComputesEntryLowerTriangle(trackIndex1, trackIndex2) == trackIndex1 >= trackIndex2

\* the branch of the conditional expression in the inner loop
ComputesEntry(trackIndex1, trackIndex2) == trackIndex1 <= trackIndex2

\* the two loops of ComputeDistanceMatrix from the given cell on, row by row
RECURSIVE FillDistanceMatrix(_, _, _, _, _)
FillDistanceMatrix(c, trackList, config, cell, matrix) ==
  LET n == Len(trackList)
  IN  IF cell > n * n
        THEN [raised |-> "none", matrix |-> matrix, cache |-> c]
        ELSE
          LET trackIndex1 == ((cell - 1) \div n) + 1
              trackIndex2 == ((cell - 1) % n) + 1
          IN  IF ComputesEntry(trackIndex1, trackIndex2)
                THEN CHOOSE out \in
                       { IF d.raised # "none"
                           THEN [raised |-> d.raised, matrix |-> m, cache |-> d.cache]
                           ELSE FillDistanceMatrix(d.cache, trackList, config, cell + 1,
                                  [m EXCEPT ![<<trackIndex1, trackIndex2>>] = d.squared]) :
                           d \in { TrackComputeDistance(c, trackList[trackIndex1], trackList[trackIndex2], config) },
                           m \in {matrix} } : TRUE
                ELSE CHOOSE out \in
                       { FillDistanceMatrix(c, trackList, config, cell + 1,
                           [m EXCEPT ![<<trackIndex1, trackIndex2>>] = m[<<trackIndex2, trackIndex1>>]]) :
                           m \in {matrix} } : TRUE

\* ComputeDistanceMatrix on the cache c
ComputeDistanceMatrix(c, trackList, config) ==
  FillDistanceMatrix(c, trackList, config, 1, ZeroMatrix(Len(trackList)))

\* ------------------------- SolveTravelingSalespersonProblem: the arc costs
integerDistanceScalingFactor == 1000

\* floor of the square root of n by bisection, with low * low <= n < high * high
RECURSIVE ISqrtBetween(_, _, _)
ISqrtBetween(n, low, high) ==
  IF high - low <= 1
    THEN low
    ELSE CHOOSE r \in
           { IF m * m <= x THEN ISqrtBetween(x, m, h) ELSE ISqrtBetween(x, l, m) :
               x \in {n}, l \in {low}, h \in {high}, m \in { (low + high) \div 2 } } : TRUE

\* floor(integerDistanceScalingFactor ** 2 * a) for a rational a >= 0, by long
\* division in base integerDistanceScalingFactor
ScaledSquare(a) ==
  CHOOSE s \in
    { LET factor == integerDistanceScalingFactor
          whole == x.num \div x.den
          remainder0 == x.num % x.den
          digit1 == (factor * remainder0) \div x.den
          remainder1 == (factor * remainder0) % x.den
          digit2 == (factor * remainder1) \div x.den
      IN  (whole * factor * factor) + (digit1 * factor) + digit2 : x \in {a} } : TRUE

\* variant: rounded up instead of truncated
ScaleToIntegerRoundedUp(squared) ==
  CHOOSE v \in
    { IF r * r = s THEN r ELSE r + 1 :
        s \in { ScaledSquare(squared) }, r \in { ISqrtBetween(ScaledSquare(squared), 0, 46341) } } : TRUE

\* (integerDistanceScalingFactor * distance).astype(int) for a distance >= 0
\* given by its square: floor(1000 * sqrt(squared))
ScaleToInteger(squared) ==
  CHOOSE v \in { ISqrtBetween(s, 0, 46341) : s \in { ScaledSquare(squared) } } : TRUE

\* lines 275-279: the scaled matrix with a row of zeros and then a column of
\* zeros appended; rows and columns are counted from 1 here
IntegerDistanceMatrix(matrix, numberOfLocations) ==
  [ cell \in (1 .. (numberOfLocations + 1)) \X (1 .. (numberOfLocations + 1)) |->
      IF (cell[1] <= numberOfLocations) /\ (cell[2] <= numberOfLocations)
        THEN ScaleToInteger(matrix[cell])
        ELSE 0 ]

\* pywrapcp.RoutingIndexManager(number of nodes, number of vehicles, depot)
RoutingIndexManager(numberOfNodes, numberOfVehicles, depot) ==
  [numberOfNodes |-> numberOfNodes, numberOfVehicles |-> numberOfVehicles, depot |-> depot]

\* TravelingSalespersonDistanceCallback for the nodes (counted from 0) that the
\* index manager maps fromIndex and toIndex to
TravelingSalespersonDistanceCallback(matrix, fromNode, toNode) == matrix[<< fromNode + 1, toNode + 1 >>]

\* Configuration.ParseArguments on the weight arguments given: each is read
\* with type=float and stored by setattr; no range is checked
ParseArguments(arguments) ==
  /\ dpc = "configuring"
  /\ configuration' = arguments
  /\ dpc' = "start"
  /\ UNCHANGED <<tracks, cache, calls, lastCall, distanceMatrix, distanceRaised>>
  /\ UNCHANGED <<integerDistanceMatrix, routingIndexManager>>
  /\ UNCHANGED <<routingVars, playlistVars, collectVars>>

\* a direct call track1.ComputeDistance(loginUserID, track2, configuration) by a
\* caller that uses the distance of two tracks on its own
CallTrackComputeDistance(trackIndex1, trackIndex2) ==
  /\ dpc \in {"start", "calling"}
  /\ calls < MaxCalls
  /\ dpc' = "calling"
  /\ \E d \in { TrackComputeDistance(cache, tracks[trackIndex1], tracks[trackIndex2], configuration) } :
         /\ lastCall' = << [ self |-> tracks[trackIndex1], other |-> tracks[trackIndex2],
                             raised |-> d.raised, squared |-> d.squared,
                             artistQueries |-> d.artistQueries ] >>
         /\ cache' = d.cache
  /\ calls' = calls + 1
  /\ UNCHANGED <<tracks, configuration, distanceMatrix, distanceRaised>>
  /\ UNCHANGED <<integerDistanceMatrix, routingIndexManager>>
  /\ UNCHANGED <<routingVars, playlistVars, collectVars>>

\* ShuffleTracks calls ComputeDistanceMatrix(loginUserID, trackList, configuration)
CallComputeDistanceMatrix ==
  /\ dpc = "start"
  /\ \E r \in { ComputeDistanceMatrix(cache, tracks, configuration) } :
         /\ cache' = r.cache
         /\ IF r.raised = "none"
              THEN /\ dpc' = "returned"
                   /\ distanceMatrix' = r.matrix
                   /\ UNCHANGED distanceRaised
              ELSE /\ dpc' = "raised"
                   /\ distanceRaised' = r.raised
                   /\ UNCHANGED distanceMatrix
  /\ UNCHANGED <<tracks, configuration, calls, lastCall>>
  /\ UNCHANGED <<integerDistanceMatrix, routingIndexManager>>
  /\ UNCHANGED <<routingVars, playlistVars, collectVars>>

\* ShuffleTracks calls SolveTravelingSalespersonProblem(distanceMatrix, ...): the
\* arc costs and the index manager it builds before the search, lines 271-290
CallSolveTravelingSalespersonProblem ==
  /\ dpc = "returned"
  /\ dpc' = "solving"
  /\ \E numberOfLocations \in { Len(tracks) } :
         /\ integerDistanceMatrix' = IntegerDistanceMatrix(distanceMatrix, numberOfLocations)
         /\ routingIndexManager' = RoutingIndexManager(numberOfLocations + 1, 1, numberOfLocations)
  /\ UNCHANGED <<tracks, configuration, cache, calls, lastCall, distanceMatrix, distanceRaised>>
  /\ UNCHANGED <<routingVars, playlistVars, collectVars>>

\* ========================================================= SavePlaylist
\* The service keeps the owner's playlists; the Client methods are the calls
\* SavePlaylist makes on it.
Playlist(playlistID, name, ids) == [playlistID |-> playlistID, name |-> name, trackIDs |-> ids]

PlaylistNames == {"mix", "road"}
TrackIDLists == { << >>, << "t1" >>, << "t2", "t1" >> }

\* the owner's playlists before SavePlaylist: the service numbers them 1, 2, ...
PlaylistLists ==
  UNION { { [ i \in 1 .. n |-> Playlist(i, names[i], contents[i]) ] :
              names \in [1 .. n -> PlaylistNames], contents \in [1 .. n -> {<< >>, << "t1" >>}] } :
          n \in 0 .. MaxPlaylists }

\* an entry of the log of client calls
ClientCall(call, playlistID) == [call |-> call, playlistID |-> playlistID]

\* Client.QueryPlaylistIDsAndNamesOfUser
QueryPlaylistIDsAndNamesOfUser(ps) == [ i \in DOMAIN ps |-> << ps[i].playlistID, ps[i].name >> ]

\* variant: a lookup that never finds the name
IndexOfNothing(seq, element) == 0

\* list.index with None for ValueError: the first position of the element,
\* counted from 1, or 0 for None
IndexOf(seq, element) ==
  IF \E i \in DOMAIN seq : seq[i] = element
    THEN CHOOSE i \in DOMAIN seq : seq[i] = element /\ \A j \in DOMAIN seq : seq[j] = element => i <= j
    ELSE 0

\* Client.CreatePlaylist: the service adds an empty playlist
CreatePlaylist(ps, playlistID, name) == Append(ps, Playlist(playlistID, name, << >>))

\* Client.ClearPlaylist: every occurrence of every track of the playlist is removed
ClearPlaylist(ps, playlistID) ==
  [ i \in DOMAIN ps |-> IF ps[i].playlistID = playlistID THEN [ps[i] EXCEPT !.trackIDs = << >>] ELSE ps[i] ]

\* Client.AddTracksToPlaylist: the pages are added in order
AddTracksToPlaylist(ps, playlistID, ids) ==
  [ i \in DOMAIN ps |->
      IF ps[i].playlistID = playlistID THEN [ps[i] EXCEPT !.trackIDs = ps[i].trackIDs \o ids] ELSE ps[i] ]

\* SavePlaylist(client, playlistSpecifier, trackIDs, overwrite=overwrite)
SavePlaylist ==
  /\ ppc = "start"
  /\ LET playlistIDsAndNames == QueryPlaylistIDsAndNamesOfUser(playlists)
         playlistNames == [ i \in DOMAIN playlistIDsAndNames |-> playlistIDsAndNames[i][2] ]
         playlistIndex == IndexOf(playlistNames, playlistName)
     IN  IF playlistIndex = 0
           THEN /\ playlists' = AddTracksToPlaylist(
                                  CreatePlaylist(playlists, nextPlaylistID, playlistName),
                                  nextPlaylistID, trackIDs)
                /\ nextPlaylistID' = nextPlaylistID + 1
                /\ clientCalls' = << ClientCall("QueryPlaylistIDsAndNamesOfUser", 0),
                                     ClientCall("CreatePlaylist", nextPlaylistID),
                                     ClientCall("AddTracksToPlaylist", nextPlaylistID) >>
                /\ ppc' = "returned"
                /\ UNCHANGED playlistRaised
           ELSE IF ~overwrite
             THEN /\ clientCalls' = << ClientCall("QueryPlaylistIDsAndNamesOfUser", 0) >>
                  /\ ppc' = "raised"
                  /\ playlistRaised' = "RuntimeError"
                  /\ UNCHANGED <<playlists, nextPlaylistID>>
             ELSE LET playlistID == playlistIDsAndNames[playlistIndex][1]
                  IN  /\ playlists' = AddTracksToPlaylist(ClearPlaylist(playlists, playlistID),
                                                          playlistID, trackIDs)
                      /\ clientCalls' = << ClientCall("QueryPlaylistIDsAndNamesOfUser", 0),
                                           ClientCall("ClearPlaylist", playlistID),
                                           ClientCall("AddTracksToPlaylist", playlistID) >>
                      /\ ppc' = "returned"
                      /\ UNCHANGED <<nextPlaylistID, playlistRaised>>
  /\ UNCHANGED <<playlistName, overwrite, trackIDs>>
  /\ UNCHANGED <<routingVars, distanceVars, collectVars>>

\* =================================================== CollectInputTracks
\* Python's None where a playlist weight is expected, and a float weight; the
\* weights drawn are whole numbers
NoWeight == [isNone |-> TRUE, value |-> 0]
Weight(value) == [isNone |-> FALSE, value |-> value]
PlaylistWeights == { NoWeight, Weight(0), Weight(1), Weight(2), Weight(3) }

\* the track ids of input playlist i with the given number of tracks, as the
\* client returns them: no id is in two playlists
TrackIDsOfPlaylist(i, length) == [ j \in 1 .. length |-> << i, j >> ]

\* a / b for b # 0
RDiv(a, b) == CHOOSE r \in { Rat(x.num * y.den, x.den * y.num) : x \in {a}, y \in {b} } : TRUE

\* Python's round of a float >= 0 to an integer: to the nearest, a half to the even one
Round(a) ==
  CHOOSE n \in
    { LET floor == x.num \div x.den
          twiceRest == 2 * (x.num % x.den)
      IN  IF twiceRest < x.den THEN floor
          ELSE IF twiceRest > x.den THEN floor + 1
          ELSE IF floor % 2 = 0 THEN floor ELSE floor + 1 : x \in {a} } : TRUE

\* [trackID for trackIDOfPlaylist in trackIDsOfPlaylists for trackID in trackIDOfPlaylist]
RECURSIVE Flatten(_, _)
Flatten(lists, i) == IF i = 0 THEN << >> ELSE Flatten(lists, i - 1) \o lists[i]

\* the orders random.shuffle may leave a list in
Shuffles(list) ==
  { [ j \in DOMAIN list |-> list[order[j]] ] :
      order \in { f \in [DOMAIN list -> DOMAIN list] : \A j, k \in DOMAIN list : f[j] = f[k] => j = k } }

\* variant: the playlist with the largest ratio
CriticalPlaylistIndexOfLargestRatio(songWeightRatios) ==
  CHOOSE c \in DOMAIN songWeightRatios :
    /\ \A i \in DOMAIN songWeightRatios : ~RLess(songWeightRatios[c], songWeightRatios[i])
    /\ \A i \in DOMAIN songWeightRatios : i < c => RLess(songWeightRatios[i], songWeightRatios[c])

\* min(range(len(songWeightRatios)), key=...): the first index with the smallest ratio
CriticalPlaylistIndex(songWeightRatios) ==
  CHOOSE c \in DOMAIN songWeightRatios :
    /\ \A i \in DOMAIN songWeightRatios : ~RLess(songWeightRatios[i], songWeightRatios[c])
    /\ \A i \in DOMAIN songWeightRatios : i < c => RLess(songWeightRatios[c], songWeightRatios[i])

\* sum(playlistWeight for playlistWeight in playlistWeights if playlistWeight is not None)
RECURSIVE TotalWeight(_, _)
TotalWeight(weights, i) ==
  IF i = 0 THEN 0
  ELSE TotalWeight(weights, i - 1) + (IF weights[i].isNone THEN 0 ELSE weights[i].value)

\* numberOfSongs of the loop for a playlist with a weight, line 65
NumberOfSongs(totalNumberOfSongs, playlistWeight, totalWeight) ==
  Round(RMul(totalNumberOfSongs, Rat(playlistWeight.value, totalWeight)))

\* trackIDsOfPlaylist[:numberOfSongs] for numberOfSongs >= 0
Slice(list, numberOfSongs) ==
  SubSeq(list, 1, IF numberOfSongs < Len(list) THEN numberOfSongs ELSE Len(list))

\* CollectInputTracks(client, playlistSpecifiers, playlistWeights) from line 46
\* on, with the track id lists the client returned
CollectInputTracks ==
  /\ cpc = "start"
  /\ IF \A i \in DOMAIN playlistWeights : playlistWeights[i].isNone
       THEN /\ collectedTrackIDs' = Flatten(trackIDsOfPlaylists, Len(trackIDsOfPlaylists))
            /\ collectReturned' = Range(collectedTrackIDs')
            /\ cpc' = "returned"
            /\ UNCHANGED <<trackIDsOfPlaylists, criticalPlaylistIndex, numbersOfSongs, collectRaised>>
       ELSE IF \E i \in DOMAIN playlistWeights : playlistWeights[i].isNone \/ playlistWeights[i].value = 0
         THEN \* float division by zero in line 49
              /\ cpc' = "raised"
              /\ collectRaised' = "ZeroDivisionError"
              /\ UNCHANGED <<trackIDsOfPlaylists, criticalPlaylistIndex, numbersOfSongs,
                             collectedTrackIDs, collectReturned>>
         ELSE
           LET songWeightRatios ==
                 [ i \in DOMAIN trackIDsOfPlaylists |->
                     Rat(Len(trackIDsOfPlaylists[i]), playlistWeights[i].value) ]
               critical == CriticalPlaylistIndex(songWeightRatios)
               totalWeight == TotalWeight(playlistWeights, Len(playlistWeights))
               totalNumberOfSongs ==
                 RDiv(Rat(Len(trackIDsOfPlaylists[critical]), 1),
                      Rat(playlistWeights[critical].value, totalWeight))
               numbers ==
                 [ i \in DOMAIN trackIDsOfPlaylists |->
                     NumberOfSongs(totalNumberOfSongs, playlistWeights[i], totalWeight) ]
           IN  \E shuffled \in [DOMAIN trackIDsOfPlaylists ->
                                   UNION { Shuffles(trackIDsOfPlaylists[i]) : i \in DOMAIN trackIDsOfPlaylists }] :
                 /\ \A i \in DOMAIN trackIDsOfPlaylists : shuffled[i] \in Shuffles(trackIDsOfPlaylists[i])
                 /\ trackIDsOfPlaylists' = shuffled
                 /\ criticalPlaylistIndex' = critical
                 /\ numbersOfSongs' = numbers
                 /\ collectedTrackIDs' =
                      Flatten([ i \in DOMAIN shuffled |-> Slice(shuffled[i], numbers[i]) ], Len(shuffled))
                 /\ collectReturned' = Range(collectedTrackIDs')
                 /\ cpc' = "returned"
                 /\ UNCHANGED collectRaised
  /\ UNCHANGED playlistWeights
  /\ UNCHANGED <<routingVars, distanceVars, playlistVars>>

\* -------------------------------------------------------- specifications
CollectIdle ==
  /\ cpc = "idle"
  /\ trackIDsOfPlaylists = << >>
  /\ playlistWeights = << >>
  /\ criticalPlaylistIndex = 0
  /\ numbersOfSongs = << >>
  /\ collectedTrackIDs = << >>
  /\ collectReturned = {}
  /\ collectRaised = "none"

PlaylistIdle ==
  /\ ppc = "idle"
  /\ playlists = << >>
  /\ nextPlaylistID = 1
  /\ playlistName = "mix"
  /\ overwrite = FALSE
  /\ trackIDs = << >>
  /\ clientCalls = << >>
  /\ playlistRaised = "none"

RoutingIdle ==
  /\ pc = "idle"
  /\ now = 0
  /\ improvementSize = DefaultImprovementSize
  /\ improvementTimeout = 0
  /\ solutions = <<>>
  /\ bestSolutions = <<>>
  /\ didHitImprovementTimeout = FALSE
  /\ comparisonSolution = NoSolution
  /\ stopSignals = {}
  /\ callbackErrors = {}
  /\ stoppingReason = "none"
  /\ raised = "none"
  /\ result = <<>>

DistanceIdle ==
  /\ dpc = "idle"
  /\ tracks = <<>>
  /\ configuration = DefaultConfiguration
  /\ cache = EmptyCache
  /\ calls = 0
  /\ lastCall = <<>>
  /\ distanceMatrix = ZeroMatrix(0)
  /\ distanceRaised = "none"
  /\ integerDistanceMatrix = ZeroMatrix(0)
  /\ routingIndexManager = RoutingIndexManager(0, 0, 0)

\* RoutingMonitor.__init__ and the start of the search
InitRouting ==
  /\ pc = "searching"
  /\ now = 0
  /\ improvementSize \in ImprovementSizes
  /\ improvementTimeout \in 0 .. MaxTimeout
  /\ solutions = <<>>
  /\ bestSolutions = <<>>
  /\ didHitImprovementTimeout = FALSE
  /\ comparisonSolution = NoSolution
  /\ stopSignals = {}
  /\ callbackErrors = {}
  /\ stoppingReason = "none"
  /\ raised = "none"
  /\ result = <<>>
  /\ DistanceIdle
  /\ PlaylistIdle
  /\ CollectIdle

\* the search of SolveTravelingSalespersonProblem with its RoutingMonitor
NextRouting ==
  \/ \E route \in Routes, objectiveValue \in ObjectiveValues, dt \in 0 .. MaxTimeStep :
       AtSolutionCallback(route, objectiveValue, dt)
  \/ SolveWithParametersReturns
  \/ SolveWithParametersRaises

SpecRouting == InitRouting /\ [][NextRouting]_vars

\* Configuration.__init__ and a track list, before the arguments are parsed
InitDistance ==
  /\ RoutingIdle
  /\ PlaylistIdle
  /\ CollectIdle
  /\ dpc = "configuring"
  /\ tracks \in TrackLists
  /\ configuration = DefaultConfiguration
  /\ cache = EmptyCache
  /\ calls = 0
  /\ lastCall = <<>>
  /\ distanceMatrix = ZeroMatrix(0)
  /\ distanceRaised = "none"
  /\ integerDistanceMatrix = ZeroMatrix(0)
  /\ routingIndexManager = RoutingIndexManager(0, 0, 0)

NextDistance ==
  \/ \E arguments \in Configurations : ParseArguments(arguments)
  \/ \E trackIndex1, trackIndex2 \in 1 .. Len(tracks) :
       CallTrackComputeDistance(trackIndex1, trackIndex2)
  \/ CallComputeDistanceMatrix
  \/ CallSolveTravelingSalespersonProblem

SpecDistance == InitDistance /\ [][NextDistance]_vars

\* the owner's playlists and the arguments, before SavePlaylist is called
InitPlaylist ==
  /\ RoutingIdle
  /\ DistanceIdle
  /\ CollectIdle
  /\ ppc = "start"
  /\ playlists \in PlaylistLists
  /\ nextPlaylistID = Len(playlists) + 1
  /\ playlistName \in PlaylistNames
  /\ overwrite \in BOOLEAN
  /\ trackIDs \in TrackIDLists
  /\ clientCalls = << >>
  /\ playlistRaised = "none"

NextPlaylist == SavePlaylist

SpecPlaylist == InitPlaylist /\ [][NextPlaylist]_vars

\* the track id lists the client returned for the input playlists, and the
\* weights given, one per playlist, before line 46 of CollectInputTracks
InitCollect ==
  /\ RoutingIdle
  /\ DistanceIdle
  /\ PlaylistIdle
  /\ cpc = "start"
  /\ \E n \in 1 .. MaxInputPlaylists :
       /\ \E lengths \in [1 .. n -> 0 .. MaxPlaylistLength] :
            trackIDsOfPlaylists = [ i \in 1 .. n |-> TrackIDsOfPlaylist(i, lengths[i]) ]
       /\ playlistWeights \in [1 .. n -> PlaylistWeights]
       /\ numbersOfSongs = [ i \in 1 .. n |-> 0 ]
  /\ criticalPlaylistIndex = 0
  /\ collectedTrackIDs = << >>
  /\ collectReturned = {}
  /\ collectRaised = "none"

NextCollect == CollectInputTracks

SpecCollect == InitCollect /\ [][NextCollect]_vars

\* ================================================================ claims
\* What the claims speak of, stated from the log alone.

\* the indices of the log entries an event k can look back on, itself included
Upto(k) == 1 .. k

\* the smallest objective value among the first k logged solutions
MinObjective(k) ==
  CHOOSE v \in { solutions[i].objectiveValue : i \in Upto(k) } :
    \A i \in Upto(k) : v <= solutions[i].objectiveValue

\* the newest of the first k logged solutions that has the smallest objective
NewestMinimum(k) ==
  CHOOSE i \in Upto(k) :
    /\ solutions[i].objectiveValue = MinObjective(k)
    /\ \A j \in Upto(k) : solutions[j].objectiveValue = MinObjective(k) => j <= i

\* the log entries that are old enough for event k: timestamp <= time of k - improvementTimeout
OldEnough(k) == { j \in Upto(k) : solutions[j].time <= solutions[k].time - improvementTimeout }

HasBaseline(k) == OldEnough(k) # {}

\* the most recent of them
BaselineIndex(k) == CHOOSE j \in OldEnough(k) : \A i \in OldEnough(k) : i <= j

BaselineBest(k) == bestSolutions[BaselineIndex(k)].objectiveValue
FirstBest == bestSolutions[1].objectiveValue
CurrentBest(k) == bestSolutions[k].objectiveValue

\* (baselineBest - currentBest) / (firstBest - currentBest) < improvementSize, firstBest > currentBest
PlateauRatioBelowSize(k) ==
  (BaselineBest(k) - CurrentBest(k)) * improvementSize.den
    < improvementSize.num * (FirstBest - CurrentBest(k))

Events == 1 .. Len(solutions)

\* C1: the best-known solution is a logged solution with the minimum objective
\* of the whole log, the most recently logged one among those with that
\* objective; an event replaces the best-known exactly when its objective is
\* <= the best-known objective before it.
C1_BestKnownIsNewestMinimum ==
  /\ Len(bestSolutions) = Len(solutions)
  /\ Len(solutions) = 0 => bestKnownSolution = NoSolution
  /\ Len(solutions) > 0 =>
       /\ bestKnownSolution = solutions[NewestMinimum(Len(solutions))]
       /\ bestKnownSolution.objectiveValue = MinObjective(Len(solutions))
  /\ \A k \in Events :
       /\ solutions[k].id = k
       /\ k > 1 =>
            IF solutions[k].objectiveValue <= bestSolutions[k - 1].objectiveValue
              THEN bestSolutions[k] = solutions[k]
              ELSE bestSolutions[k] = bestSolutions[k - 1]

\* C1 witness: two logged solutions tie for the minimum, a worse one follows,
\* and the best-known is the later of the two.
C1_Witness ==
  /\ Len(solutions) = 3
  /\ solutions[1].objectiveValue = solutions[2].objectiveValue
  /\ solutions[3].objectiveValue > solutions[2].objectiveValue
  /\ solutions[1].nodeIndices # solutions[2].nodeIndices
  /\ bestKnownSolution = solutions[2]

\* C2: at every callback with a baseline and firstBest # currentBest, the
\* monitor calls FinishCurrentSearch (and didHitImprovementTimeout is set) if
\* the plateau ratio is below improvementSize, and does not call it otherwise.
C2_StopsExactlyBelowImprovementSize ==
  \A k \in Events :
    (HasBaseline(k) /\ FirstBest # CurrentBest(k)) =>
      /\ (k \in stopSignals) <=> PlateauRatioBelowSize(k)
      /\ (k \in stopSignals) => didHitImprovementTimeout

\* C2 witness: one callback with a baseline and a ratio >= improvementSize that
\* did not signal, and a later one with a ratio below it that did.
C2_Witness ==
  \E k1, k2 \in Events :
    /\ k1 < k2
    /\ HasBaseline(k1) /\ FirstBest # CurrentBest(k1)
    /\ ~PlateauRatioBelowSize(k1) /\ k1 \notin stopSignals
    /\ HasBaseline(k2) /\ PlateauRatioBelowSize(k2) /\ k2 \in stopSignals
    /\ didHitImprovementTimeout

\* C3: the baseline of a callback is the best-known solution recorded at the
\* most recent log entry with timestamp <= (time of the event - improvementTimeout);
\* a callback without such an entry has no baseline and takes no stopping action.
C3_BaselineIsNewestOldEnoughEntry ==
  /\ Len(solutions) > 0 =>
       comparisonSolution =
         (IF HasBaseline(Len(solutions))
            THEN bestSolutions[BaselineIndex(Len(solutions))]
            ELSE NoSolution)
  /\ \A k \in Events : ~HasBaseline(k) => (k \notin stopSignals /\ k \notin callbackErrors)
  /\ didHitImprovementTimeout <=> (stopSignals # {})

\* C3 witness: the first callback had no baseline; the third one's baseline is
\* the second entry, whose best-known differs from the first entry's and from
\* the newest.
C3_Witness ==
  /\ Len(solutions) = 3
  /\ ~HasBaseline(1)
  /\ HasBaseline(3) /\ BaselineIndex(3) = 2
  /\ comparisonSolution = bestSolutions[2]
  /\ bestSolutions[2] # bestSolutions[1]
  /\ bestSolutions[2] # bestSolutions[3]

\* C4: a callback with a baseline and firstBest - currentBest = 0 skips the
\* plateau check: it raises no error and does not signal the optimizer to stop
\* (stated here for improvementTimeout > 0, where the baseline is an earlier entry).
C4_ZeroDenominatorSkipsCheck ==
  \A k \in Events :
    (improvementTimeout > 0 /\ HasBaseline(k) /\ FirstBest = CurrentBest(k)) =>
      (k \notin callbackErrors /\ k \notin stopSignals)

\* objectives of events 1..m strictly improve, those of m..k stay flat
ImprovingThenFlat(m, k) ==
  /\ 2 <= m /\ m <= k
  /\ \A i \in 1 .. (m - 1) : solutions[i + 1].objectiveValue < solutions[i].objectiveValue
  /\ \A i \in m .. k : solutions[i].objectiveValue = solutions[m].objectiveValue

\* event k of an improving-then-flat sequence looks back into the flat span
LooksBackIntoFlatSpan(k) ==
  \E m \in Upto(k) :
    /\ ImprovingThenFlat(m, k)
    /\ solutions[k].time - improvementTimeout >= solutions[m].time

PlateauReported ==
  /\ didHitImprovementTimeout
  /\ stoppingReason # "none" => stoppingReason = "improvement timeout"

\* C5 (as claimed): in a strictly improving, then flat sequence, every event
\* that looks back into the flat span signals early stop, and the stop reason
\* reported is the improvement timeout (stated here for improvementTimeout > 0).
C5_PlateauStopsForAnySize ==
  \A k \in Events :
    (improvementTimeout > 0 /\ LooksBackIntoFlatSpan(k)) => (k \in stopSignals /\ PlateauReported)

\* C5 (amended): the same, for improvementSize > 0.
C5_PlateauStopsForPositiveSize ==
  \A k \in Events :
    (improvementSize.num > 0 /\ LooksBackIntoFlatSpan(k)) =>
      (k \in stopSignals /\ PlateauReported)

\* C5 witness: improvement, then a flat span longer than the timeout, the stop
\* signalled at the first event that looks back into it and not before, and
\* the search ended with the improvement timeout as its reason.
C5_Witness ==
  /\ Len(solutions) = 3
  /\ improvementSize.num > 0 /\ improvementTimeout > 0
  /\ ImprovingThenFlat(2, 3)
  /\ LooksBackIntoFlatSpan(3)
  /\ stopSignals = {3}
  /\ pc = "returned" /\ stoppingReason = "improvement timeout"

\* every event up to k has a strictly smaller objective than all earlier ones
ContinuouslyImproving(k) ==
  \A i, j \in Upto(k) : i < j => solutions[j].objectiveValue < solutions[i].objectiveValue

\* C6 (as claimed): in a continuously improving sequence no event signals
\* early stop, here for the default improvementSize 0.05 and any timeout > 0.
C6_ImprovingNeverStops ==
  \A k \in Events :
    (improvementSize = DefaultImprovementSize /\ improvementTimeout > 0 /\ ContinuouslyImproving(k)) =>
      k \notin stopSignals

\* C6 (amended): in a continuously improving sequence an event signals early
\* stop only if it has a baseline and the improvement since the baseline is
\* less than improvementSize times the improvement since the first solution;
\* an event whose improvement since the baseline is at least that never does.
C6_ImprovingStopsOnlyOnSmallImprovement ==
  \A k \in Events :
    ContinuouslyImproving(k) =>
      ((k \in stopSignals) <=> (k > 1 /\ HasBaseline(k) /\ PlateauRatioBelowSize(k)))

\* C6 witness: three continuously improving events under the default
\* improvementSize, the last with a baseline, and no stop signal.
C6_Witness ==
  /\ Len(solutions) = 3
  /\ improvementSize = DefaultImprovementSize
  /\ ContinuouslyImproving(3)
  /\ HasBaseline(3) /\ BaselineIndex(3) = 2
  /\ stopSignals = {}
  /\ ~didHitImprovementTimeout

\* C7: a search that ends without any solution callback ends in the error
\* "Could not find a solution." and in no other failure.
C7_NoSolutionRaisesCouldNotFind ==
  (pc # "searching" /\ Len(solutions) = 0) =>
    (pc = "raised" /\ raised = "RuntimeError: Could not find a solution.")

\* C8: the returned order is the tour of the newest solution with the smallest
\* objective among all solutions reported during the search.
C8_ReturnsBestReportedTour ==
  pc = "returned" =>
    /\ Len(solutions) > 0
    /\ result = solutions[NewestMinimum(Len(solutions))].nodeIndices
    /\ \E i \in Events :
         /\ result = solutions[i].nodeIndices
         /\ \A j \in Events : solutions[i].objectiveValue <= solutions[j].objectiveValue

\* C8 witness: the search returned although the last reported solution was
\* worse than the best one and had another tour.
C8_Witness ==
  /\ pc = "returned"
  /\ Len(solutions) = 3
  /\ solutions[3].objectiveValue > MinObjective(3)
  /\ solutions[3].nodeIndices # result
  /\ result = solutions[2].nodeIndices

\* C9: the matrix ComputeDistanceMatrix returns for a list of n tracks is
\* n x n, equals its own transpose, has a zero diagonal and no negative entry
\* (lists of length 0 and 1 included).
C9_MatrixSymmetricZeroDiagonalNonNegative ==
  dpc = "returned" =>
    LET n == Len(tracks)
    IN  /\ DOMAIN distanceMatrix = (1 .. n) \X (1 .. n)
        /\ \A i, j \in 1 .. n :
             /\ distanceMatrix[<<i, j>>] = distanceMatrix[<<j, i>>]
             /\ distanceMatrix[<<i, j>>].den > 0
             /\ distanceMatrix[<<i, j>>].num >= 0
        /\ \A i \in 1 .. n : distanceMatrix[<<i, i>>] = Zero

\* C9 witness: a matrix returned for two distinct tracks under the default
\* weights, with a positive entry off the diagonal, mirrored.
C9_Witness ==
  /\ dpc = "returned"
  /\ Len(tracks) = MaxTracks
  /\ configuration = DefaultConfiguration
  /\ distanceMatrix[<<1, 2>>] # Zero
  /\ distanceMatrix[<<2, 1>>] = distanceMatrix[<<1, 2>>]

\* C10: Track.ComputeDistance of two tracks with the same id returns 0, raises
\* nothing and resolves no artist, whatever the weights and the tracks' other
\* attributes are.
C10_SameIdDistanceZero ==
  \A i \in DOMAIN lastCall :
    lastCall[i].self.id = lastCall[i].other.id =>
      /\ lastCall[i].raised = "none"
      /\ lastCall[i].squared = Zero
      /\ lastCall[i].artistQueries = 0

\* C10 witness: a call on two tracks that share the id and differ in features,
\* key and artists, under weights that make every component count.
C10_Witness ==
  \E i \in DOMAIN lastCall :
    /\ lastCall[i].self.id = lastCall[i].other.id
    /\ lastCall[i].self.acousticness # lastCall[i].other.acousticness
    /\ lastCall[i].self.key # lastCall[i].other.key
    /\ lastCall[i].self.artistIDs # lastCall[i].other.artistIDs
    /\ configuration = DefaultConfiguration
    /\ lastCall[i].squared = Zero

\* what a Track.ComputeDistance call ends with: the exception or the distance
Outcome(d) == [raised |-> d.raised, squared |-> d.squared]

\* C11: distance is symmetric.  On every cache the program reaches, and under
\* every configuration, Track.ComputeDistance(a, b) ends as
\* Track.ComputeDistance(b, a) does (same distance, or same exception) for all
\* tracks a, b of the list, the reverse of the latest call made ends as that
\* call did, and Artist.ComputeDistance(a, b) = Artist.ComputeDistance(b, a)
\* for all artists a, b.
C11_DistanceSymmetric ==
  /\ \A i, j \in DOMAIN tracks :
       Outcome(TrackComputeDistance(cache, tracks[i], tracks[j], configuration))
         = Outcome(TrackComputeDistance(cache, tracks[j], tracks[i], configuration))
  /\ \A i \in DOMAIN lastCall :
       Outcome(lastCall[i])
         = Outcome(TrackComputeDistance(cache, lastCall[i].other, lastCall[i].self, configuration))
  /\ \A a, b \in DOMAIN ArtistCatalog :
       ArtistComputeDistance(cache, QueryArtist(a), QueryArtist(b)).value
         = ArtistComputeDistance(cache, QueryArtist(b), QueryArtist(a)).value

\* C11 witness: a call on two distinct tracks with different tempo and
\* artists returned a positive distance and filled the cache, and the reverse
\* call on that cache returns the same distance.
C11_Witness ==
  \E i \in DOMAIN lastCall :
    /\ lastCall[i].self.id # lastCall[i].other.id
    /\ lastCall[i].self.tempo # lastCall[i].other.tempo
    /\ lastCall[i].self.artistIDs # lastCall[i].other.artistIDs
    /\ lastCall[i].raised = "none"
    /\ lastCall[i].squared # Zero
    /\ cache # EmptyCache
    /\ TrackComputeDistance(cache, lastCall[i].other, lastCall[i].self, configuration).squared
         = lastCall[i].squared

\* the eight audio features of two tracks are equal
SameFeatures(self, other) ==
  /\ self.acousticness = other.acousticness
  /\ self.danceability = other.danceability
  /\ self.energy = other.energy
  /\ self.instrumentalness = other.instrumentalness
  /\ self.liveness = other.liveness
  /\ self.speechiness = other.speechiness
  /\ self.tempo = other.tempo
  /\ self.valence = other.valence

\* Scenario A: identical features, at least one shared artist id, the same defined key
ScenarioA(self, other) ==
  /\ SameFeatures(self, other)
  /\ Range(self.artistIDs) \cap Range(other.artistIDs) # {}
  /\ self.key = other.key
  /\ self.key # NoKey

\* C12 as stated: in Scenario A, Track.ComputeDistance returns 0 under the
\* default weights.
C12_ScenarioADistanceZero ==
  \A i \in DOMAIN lastCall :
    (configuration = DefaultConfiguration /\ ScenarioA(lastCall[i].self, lastCall[i].other)) =>
      /\ lastCall[i].raised = "none"
      /\ lastCall[i].squared = Zero

\* C12, amended: in Scenario A under the default weights Track.ComputeDistance
\* returns 0 exactly when the two tracks have the same id; for two tracks with
\* different ids the shared artist makes the differentArtist component 1.0, so
\* the squared distance is at least 5.0, and it is 5.0 when the two tracks
\* have the same single artist.
C12_ScenarioADistanceZeroOnlyForSameId ==
  \A i \in DOMAIN lastCall :
    (configuration = DefaultConfiguration /\ ScenarioA(lastCall[i].self, lastCall[i].other)) =>
      /\ lastCall[i].raised = "none"
      /\ (lastCall[i].squared = Zero) <=> (lastCall[i].self.id = lastCall[i].other.id)
      /\ lastCall[i].self.id # lastCall[i].other.id =>
           /\ ~RLess(lastCall[i].squared, Rat(5, 1))
           /\ (lastCall[i].self.artistIDs = lastCall[i].other.artistIDs /\ Len(lastCall[i].self.artistIDs) = 1)
                => lastCall[i].squared = Rat(5, 1)

\* C12 witness: a Scenario A call on two tracks with different ids and the
\* same single artist, under the default weights, returned sqrt(5).
C12_Witness ==
  \E i \in DOMAIN lastCall :
    /\ configuration = DefaultConfiguration
    /\ ScenarioA(lastCall[i].self, lastCall[i].other)
    /\ lastCall[i].self.id # lastCall[i].other.id
    /\ Len(lastCall[i].self.artistIDs) = 1
    /\ lastCall[i].raised = "none"
    /\ lastCall[i].squared = Rat(5, 1)

\* the eight audio features and the name of the weight of each
AudioFeatures ==
  { "acousticness", "danceability", "energy", "instrumentalness", "liveness", "speechiness",
    "tempo", "valence" }

WeightName ==
  [ acousticness |-> "acousticnessWeight", danceability |-> "danceabilityWeight",
    energy |-> "energyWeight", instrumentalness |-> "instrumentalnessWeight",
    liveness |-> "livenessWeight", speechiness |-> "speechinessWeight",
    tempo |-> "tempoWeight", valence |-> "valenceWeight" ]

\* all 11 weights are 0 except the weight of the given audio feature, which is positive
OnlyWeight(config, feature) ==
  /\ config[WeightName[feature]] > 0
  /\ \A name \in DOMAIN config : name # WeightName[feature] => config[name] = 0

\* w * (difference of the feature) ** 2
WeightedSquaredDifference(config, feature, self, other) ==
  RMul(Rat(config[WeightName[feature]], 1), RSquare(RSub(self[feature], other[feature])))

\* C13 as stated: with one positive audio-feature weight w and all other
\* weights 0, the squared distance of two distinct tracks is w times the
\* squared difference of that feature, and no artist is resolved and no genre
\* distance computed.
C13_SingleWeightScalesDifference ==
  \A i \in DOMAIN lastCall : \A feature \in AudioFeatures :
    (OnlyWeight(configuration, feature) /\ lastCall[i].self.id # lastCall[i].other.id) =>
      /\ lastCall[i].raised = "none"
      /\ lastCall[i].squared
           = WeightedSquaredDifference(configuration, feature, lastCall[i].self, lastCall[i].other)
      /\ lastCall[i].artistQueries = 0
      /\ cache = EmptyCache

\* C13, amended: the same for the seven features in [0, 1]; for the tempo the
\* component is min(|difference| / 10.0, 1.0) instead of the difference.
C13_SingleWeightScalesComponent ==
  \A i \in DOMAIN lastCall : \A feature \in AudioFeatures :
    (OnlyWeight(configuration, feature) /\ lastCall[i].self.id # lastCall[i].other.id) =>
      /\ lastCall[i].raised = "none"
      /\ feature # "tempo" =>
           lastCall[i].squared
             = WeightedSquaredDifference(configuration, feature, lastCall[i].self, lastCall[i].other)
      /\ feature = "tempo" =>
           lastCall[i].squared
             = RMul(Rat(configuration.tempoWeight, 1),
                    RSquare(RMin(RMul(RAbs(RSub(lastCall[i].self.tempo, lastCall[i].other.tempo)),
                                      Rat(1, 10)), One)))
      /\ lastCall[i].artistQueries = 0
      /\ cache = EmptyCache

\* C13 witness: under the valence weight 4 alone, a call on two distinct
\* tracks with artists, different keys and valences 0.5 and 0.7 returned
\* sqrt(4) * 0.2.
C13_Witness ==
  \E i \in DOMAIN lastCall :
    /\ OnlyWeight(configuration, "valence")
    /\ lastCall[i].self.id # lastCall[i].other.id
    /\ lastCall[i].self.key # lastCall[i].other.key
    /\ Len(lastCall[i].self.artistIDs) > 0
    /\ Len(lastCall[i].other.artistIDs) > 0
    /\ lastCall[i].raised = "none"
    /\ lastCall[i].squared = Rat(16, 100)
    /\ lastCall[i].artistQueries = 0

\* C14: the table has an entry for each of the 24 keys (so for the key of
\* every track of the list), and Key.IsCompatible is reflexive and symmetric
\* over them.
C14_IsCompatibleReflexiveSymmetric ==
  /\ \A i \in DOMAIN tracks : tracks[i].key # NoKey => tracks[i].key \in DOMAIN gCompatibleKeys
  /\ Cardinality(Key) = 24
  /\ DOMAIN gCompatibleKeys = Key
  /\ \A K \in Key : gCompatibleKeys[K] \subseteq Key
  /\ \A K \in Key : IsCompatible(K, K)
  /\ \A K, J \in Key : IsCompatible(K, J) <=> IsCompatible(J, K)

\* C14 witness: under the artist and key weights alone, a call on a track in
\* A minor and a track in C major that share an artist returned sqrt(5): the
\* key component was 0, and the two keys are compatible in both directions.
C14_Witness ==
  \E i \in DOMAIN lastCall :
    /\ configuration = Weights(0, 0, 5, 0, 0, 0, 3, 0, 0, 0, 0)
    /\ lastCall[i].self.key = "aMinor"
    /\ lastCall[i].other.key = "cMajor"
    /\ lastCall[i].self.id # lastCall[i].other.id
    /\ lastCall[i].squared = Rat(5, 1)
    /\ IsCompatible("aMinor", "cMajor")
    /\ IsCompatible("cMajor", "aMinor")

\* C15: for the key of pitch class p in a mode, the compatible set is the key
\* itself, its relative key (minor at p + 9 for a major key, major at p + 3
\* for a minor key) and the keys of the same mode at p + 7 and p + 5, all
\* pitch classes modulo 12; the key of every track of the list is one of these.
C15_CompatibleSetByPitchClass ==
  /\ \A i \in DOMAIN tracks :
       tracks[i].key \in { FromSpotifyNotation(p, m) : p \in -1 .. 11, m \in 0 .. 1 }
  /\ \A p \in 0 .. 11 :
       /\ gCompatibleKeys[FromSpotifyNotation(p, 1)]
            = { FromSpotifyNotation(p, 1), FromSpotifyNotation((p + 9) % 12, 0),
                FromSpotifyNotation((p + 7) % 12, 1), FromSpotifyNotation((p + 5) % 12, 1) }
       /\ gCompatibleKeys[FromSpotifyNotation(p, 0)]
            = { FromSpotifyNotation(p, 0), FromSpotifyNotation((p + 3) % 12, 1),
                FromSpotifyNotation((p + 7) % 12, 0), FromSpotifyNotation((p + 5) % 12, 0) }
       /\ Cardinality(gCompatibleKeys[FromSpotifyNotation(p, 1)]) = 4
       /\ Cardinality(gCompatibleKeys[FromSpotifyNotation(p, 0)]) = 4

\* C15 witness: under the artist and key weights alone, a call on a track in
\* C major (pitch class 0) and a track in G major (pitch class 7) without a
\* shared artist returned 0: the key component was 0.
C15_Witness ==
  \E i \in DOMAIN lastCall :
    /\ configuration = Weights(0, 0, 5, 0, 0, 0, 3, 0, 0, 0, 0)
    /\ lastCall[i].self.key = FromSpotifyNotation(0, 1)
    /\ lastCall[i].other.key = FromSpotifyNotation(7, 1)
    /\ lastCall[i].self.id # lastCall[i].other.id
    /\ lastCall[i].raised = "none"
    /\ lastCall[i].squared = Zero

\* the genre labels of the table, and the labels artists carry
KnownGenres == {"rock", "pop", "jazz"}
GenreLabels == UNION { Range(ArtistCatalog[a].genres) : a \in DOMAIN ArtistCatalog }

\* C16: on every cache the program reaches, GenreDistanceComputer.ComputeDistance(g, h)
\* returns None when g or h is not in the table and 0 when g = h is in the
\* table, and the same again on the next call for the pair (in either order),
\* which is answered from the cache.
C16_UnknownGenreIsNoneSameGenreIsZero ==
  \A g, h \in GenreLabels :
    LET first == GenreComputeDistance(cache, g, h)
        later == GenreComputeDistance(first.cache, h, g)
    IN  /\ {g, h} \in DOMAIN first.cache
        /\ later.cache = first.cache
        /\ later.value = first.value
        /\ (g \notin KnownGenres \/ h \notin KnownGenres) => first.value = NoneDistance
        /\ (g = h /\ g \in KnownGenres) => first.value = Zero
        /\ (g \in KnownGenres /\ h \in KnownGenres) => first.value # NoneDistance

\* C16 witness: Track.ComputeDistance calls have filled the cache with a pair
\* of a known and an unknown genre (None) and with a known genre paired with
\* itself (0), and both are answered from the cache.
C16_Witness ==
  /\ {"pop"} \in DOMAIN cache
  /\ cache[{"pop"}] = Zero
  /\ {"rock", "vaporwave"} \in DOMAIN cache
  /\ cache[{"rock", "vaporwave"}] = NoneDistance
  /\ GenreComputeDistance(cache, "vaporwave", "rock").value = NoneDistance
  /\ GenreComputeDistance(cache, "pop", "pop").value = Zero

\* the pairs of genre labels of two artists that are both in the table
KnownGenrePairs(a, b) ==
  { pair \in Range(a.genres) \X Range(b.genres) : pair[1] \in KnownGenres /\ pair[2] \in KnownGenres }

\* the smallest genre distance over these pairs
MinimumKnownGenreDistance(a, b) ==
  LET distances == { GenreDataDistance(GenreData[pair[1]], GenreData[pair[2]]) : pair \in KnownGenrePairs(a, b) }
  IN  CHOOSE m \in distances : \A d \in distances : ~RLess(d, m)

\* C17: on every cache the program reaches, Artist.ComputeDistance(a, b) is 0
\* for equal ids; otherwise it is the minimum genre distance over the pairs of
\* labels that are both in the table, and 1.0 when there is no such pair; it is
\* never None.
C17_ArtistDistanceIsMinimumOverKnownPairs ==
  \A idA, idB \in DOMAIN ArtistCatalog :
    LET a == QueryArtist(idA)
        b == QueryArtist(idB)
        distance == ArtistComputeDistance(cache, a, b).value
    IN  /\ distance # NoneDistance
        /\ a.id = b.id => distance = Zero
        /\ (a.id # b.id /\ KnownGenrePairs(a, b) = {}) => distance = One
        /\ (a.id # b.id /\ KnownGenrePairs(a, b) # {}) => distance = MinimumKnownGenreDistance(a, b)

\* C17 witness: under the genre weight alone, a call on a track of artist a1
\* and a track of artists a1 and a2 returned the mean 1/8 of 0 and 1/4, where
\* 1/4 is the smaller of the two known genre distances of a1 and a2, whose
\* other two pairs are unknown; a1 and a4 (all pairs unknown) and a1 and a3
\* (no genres) are at distance 1.0.
C17_Witness ==
  \E i \in DOMAIN lastCall :
    /\ configuration = Weights(0, 0, 0, 0, 1, 0, 0, 0, 0, 0, 0)
    /\ lastCall[i].self.artistIDs = << "a1" >>
    /\ lastCall[i].other.artistIDs = << "a1", "a2" >>
    /\ lastCall[i].squared = Rat(1, 64)
    /\ {"pop", "vaporwave"} \in DOMAIN cache
    /\ ArtistComputeDistance(cache, QueryArtist("a1"), QueryArtist("a2")).value = Rat(1, 4)
    /\ ArtistComputeDistance(cache, QueryArtist("a1"), QueryArtist("a4")).value = One
    /\ ArtistComputeDistance(cache, QueryArtist("a1"), QueryArtist("a3")).value = One

\* none of the 11 weights of a configuration is negative
NoNegativeWeight(config) == \A name \in DOMAIN config : config[name] >= 0

\* C18: a negative weight is rejected when the arguments are parsed: the
\* configuration that ParseArguments leaves, and with which Track.ComputeDistance
\* and ComputeDistanceMatrix are called, has no negative weight.
C18_NegativeWeightRejected ==
  dpc \in {"start", "calling", "returned", "raised"} => NoNegativeWeight(configuration)

\* C19: a Track.ComputeDistance call on two distinct tracks of which one has no
\* artist ends in an error whenever the genre, differentArtist or key weight
\* is positive.
C19_NoArtistFailsFast ==
  \A i \in DOMAIN lastCall :
    ( /\ lastCall[i].self.id # lastCall[i].other.id
      /\ (Len(lastCall[i].self.artistIDs) = 0 \/ Len(lastCall[i].other.artistIDs) = 0)
      /\ \/ configuration.genreWeight > 0
         \/ configuration.differentArtistWeight > 0
         \/ configuration.keyWeight > 0 )
    => lastCall[i].raised # "none"

\* a playlist with the output name exists for the owner
OutputPlaylistExists == \E i \in DOMAIN playlists : playlists[i].name = playlistName

\* the first of them in the listing
OutputPlaylistIndex ==
  CHOOSE i \in DOMAIN playlists :
    /\ playlists[i].name = playlistName
    /\ \A j \in DOMAIN playlists : playlists[j].name = playlistName => i <= j

\* the client calls that change a playlist
ModifyingCalls == {"CreatePlaylist", "ClearPlaylist", "AddTracksToPlaylist"}

\* C20: a SavePlaylist step (a) with an existing output playlist and overwrite
\* false raises and has made no create, clear or add call and changed no
\* playlist; (b) with an existing output playlist and overwrite true creates
\* nothing, clears that playlist and then adds the tracks to it, leaving every
\* other playlist as it was; (c) without an output playlist creates one and
\* adds the tracks to it, leaving the existing playlists as they were.
C20_SavePlaylistOverwritesOnlyOnRequest ==
  [][ (ppc = "start" /\ ppc' # "start") =>
        IF OutputPlaylistExists /\ ~overwrite
          THEN /\ ppc' = "raised"
               /\ playlistRaised' = "RuntimeError"
               /\ playlists' = playlists
               /\ \A k \in DOMAIN clientCalls' : clientCalls'[k].call \notin ModifyingCalls
          ELSE IF OutputPlaylistExists
            THEN /\ ppc' = "returned"
                 /\ playlistRaised' = "none"
                 /\ \A k \in DOMAIN clientCalls' : clientCalls'[k].call # "CreatePlaylist"
                 /\ \E k, l \in DOMAIN clientCalls' :
                      /\ k < l
                      /\ clientCalls'[k] = ClientCall("ClearPlaylist", playlists[OutputPlaylistIndex].playlistID)
                      /\ clientCalls'[l] = ClientCall("AddTracksToPlaylist", playlists[OutputPlaylistIndex].playlistID)
                      /\ \A m \in DOMAIN clientCalls' :
                           clientCalls'[m].call \in ModifyingCalls => m \in {k, l}
                 /\ DOMAIN playlists' = DOMAIN playlists
                 /\ playlists'[OutputPlaylistIndex]
                      = [playlists[OutputPlaylistIndex] EXCEPT !.trackIDs = trackIDs]
                 /\ \A i \in DOMAIN playlists : i # OutputPlaylistIndex => playlists'[i] = playlists[i]
            ELSE /\ ppc' = "returned"
                 /\ playlistRaised' = "none"
                 /\ Len(playlists') = Len(playlists) + 1
                 /\ \A i \in DOMAIN playlists : playlists'[i] = playlists[i]
                 /\ playlists'[Len(playlists')].name = playlistName
                 /\ playlists'[Len(playlists')].trackIDs = trackIDs
                 /\ \A i \in DOMAIN playlists :
                      playlists[i].playlistID # playlists'[Len(playlists')].playlistID
                 /\ \E k, l \in DOMAIN clientCalls' :
                      /\ k < l
                      /\ clientCalls'[k] = ClientCall("CreatePlaylist", playlists'[Len(playlists')].playlistID)
                      /\ clientCalls'[l] = ClientCall("AddTracksToPlaylist", playlists'[Len(playlists')].playlistID)
                      /\ \A m \in DOMAIN clientCalls' :
                           clientCalls'[m].call \in ModifyingCalls => m \in {k, l}
    ]_vars

\* C20 witness: SavePlaylist returned with overwrite set where two playlists
\* carry the output name: the first was cleared and then given the two tracks,
\* the second still holds its own track, and no playlist was created.
C20_Witness ==
  /\ ppc = "returned"
  /\ overwrite
  /\ Len(playlists) = 2
  /\ playlists[1].name = playlistName
  /\ playlists[2].name = playlistName
  /\ trackIDs = << "t2", "t1" >>
  /\ playlists[1].trackIDs = trackIDs
  /\ playlists[2].trackIDs = << "t1" >>
  /\ clientCalls = << ClientCall("QueryPlaylistIDsAndNamesOfUser", 0),
                      ClientCall("ClearPlaylist", 1), ClientCall("AddTracksToPlaylist", 1) >>

\* a list in which every track index 0 .. n-1 occurs exactly once and nothing else does
IsPermutationOfNodes(indices) ==
  /\ Len(indices) = NumberOfLocations
  /\ \A node \in Nodes : Cardinality({ p \in DOMAIN indices : indices[p] = node }) = 1
  /\ \A p \in DOMAIN indices : indices[p] \in Nodes /\ indices[p] # NumberOfLocations

\* C23: the node indices recorded for every logged solution, and those that
\* SolveTravelingSalespersonProblem returns, are a permutation of the track
\* indices 0 .. n-1, without the depot index n.
C23_NodeIndicesArePermutation ==
  /\ \A k \in Events :
       /\ IsPermutationOfNodes(solutions[k].nodeIndices)
       /\ IsPermutationOfNodes(bestSolutions[k].nodeIndices)
  /\ pc = "returned" => IsPermutationOfNodes(result)

\* C23 witness: the solver reported both orders of the tracks, and the order
\* returned is the one that visits track 1 before track 0.
C23_Witness ==
  /\ pc = "returned"
  /\ result = << 1, 0 >>
  /\ \E k \in Events : solutions[k].nodeIndices = << 0, 1 >>
  /\ \E k \in Events : solutions[k].nodeIndices = << 1, 0 >>

\* the logs of the next state start with the logs of this state
LogsOnlyAppended ==
  /\ Len(solutions') \in { Len(solutions), Len(solutions) + 1 }
  /\ Len(bestSolutions') \in { Len(bestSolutions), Len(bestSolutions) + 1 }
  /\ SubSeq(solutions', 1, Len(solutions)) = solutions
  /\ SubSeq(bestSolutions', 1, Len(bestSolutions)) = bestSolutions

\* same length, non-increasing best objectives, no best known solution exactly before the first callback
LogsConsistent ==
  /\ Len(solutions) = Len(bestSolutions)
  /\ \A k \in Events : k > 1 => bestSolutions[k].objectiveValue <= bestSolutions[k - 1].objectiveValue
  /\ (bestKnownSolution = NoSolution) <=> (Len(solutions) = 0)

\* C28: in every reachable RoutingMonitor state the solution log and the
\* best-known log have the same length, every step leaves the entries already
\* logged unchanged and appends at most one entry to each log, the best-known
\* objectives are non-increasing, and bestKnownSolution is absent exactly when
\* no callback has happened.
C28_LogsAppendOnlyAndBestNonIncreasing == [](LogsConsistent) /\ [][LogsOnlyAppended]_vars

\* C28 witness: three callbacks happened, the second improved on the first and
\* the third was worse than the best known solution, which stayed.
C28_Witness ==
  /\ Len(solutions) = 3
  /\ Len(bestSolutions) = 3
  /\ bestSolutions[2].objectiveValue < bestSolutions[1].objectiveValue
  /\ solutions[3].objectiveValue > bestSolutions[2].objectiveValue
  /\ bestSolutions[3] = bestSolutions[2]
  /\ bestKnownSolution = bestSolutions[3]

\* the plateau ratio of the newest callback was evaluated: it had a baseline and a nonzero denominator
RatioEvaluated ==
  /\ Len(solutions) > 0
  /\ comparisonSolution # NoSolution
  /\ FirstBest # CurrentBest(Len(solutions))

\* numerator and denominator of the newest callback's ratio, from the baseline the monitor looked up
RatioNumerator == comparisonSolution.objectiveValue - CurrentBest(Len(solutions))
RatioDenominator == FirstBest - CurrentBest(Len(solutions))

\* C29: whenever the plateau ratio is evaluated with a nonzero denominator,
\* firstBest >= baselineBest >= currentBest, so the ratio lies in [0, 1];
\* with improvementSize <= 0 the monitor never signals early stop, and with
\* improvementSize > 1 it signals early stop at every callback that has a
\* baseline and a nonzero denominator.
C29_PlateauRatioInUnitInterval ==
  /\ RatioEvaluated =>
       /\ FirstBest >= comparisonSolution.objectiveValue
       /\ comparisonSolution.objectiveValue >= CurrentBest(Len(solutions))
       /\ RatioDenominator > 0
       /\ 0 <= RatioNumerator
       /\ RatioNumerator <= RatioDenominator
  /\ improvementSize.num <= 0 => (stopSignals = {} /\ ~didHitImprovementTimeout)
  /\ improvementSize.num > improvementSize.den =>
       \A k \in Events : (HasBaseline(k) /\ FirstBest # CurrentBest(k)) => k \in stopSignals

\* C29 witness: with improvementSize 2 the third callback looked back on the
\* second; the ratio (1 - 0) / (2 - 0) is strictly inside the interval, and
\* the monitor signalled early stop.
C29_Witness ==
  /\ Len(solutions) = 3
  /\ improvementSize = [num |-> 2, den |-> 1]
  /\ RatioEvaluated
  /\ FirstBest = 2
  /\ comparisonSolution = bestSolutions[2]
  /\ comparisonSolution.objectiveValue = 1
  /\ CurrentBest(3) = 0
  /\ 3 \in stopSignals
  /\ didHitImprovementTimeout

\* a step never clears the stop flag, and a callback after the stop request
\* logs its solution and chooses the best known solution as any callback does
StopIsCooperative ==
  /\ didHitImprovementTimeout => didHitImprovementTimeout'
  /\ (didHitImprovementTimeout /\ solutions' # solutions) =>
       /\ Len(solutions') = Len(solutions) + 1
       /\ SubSeq(solutions', 1, Len(solutions)) = solutions
       /\ Len(bestSolutions') = Len(solutions')
       /\ bestSolutions'[Len(solutions')] =
            (IF solutions'[Len(solutions')].objectiveValue <= bestSolutions[Len(solutions)].objectiveValue
               THEN solutions'[Len(solutions')]
               ELSE bestSolutions[Len(solutions)])

\* what SolveTravelingSalespersonProblem returns is the newest entry of the best-known log
ReturnsNewestBest == (pc = "returned") => (result = bestSolutions[Len(bestSolutions)].nodeIndices)

\* C30: once didHitImprovementTimeout is true it stays true; a callback that
\* arrives after the stop request still appends its solution and still
\* updates the best known solution by the same rule; the tour returned is the
\* best known one at the end, so a better solution that arrived after the
\* stop request is the one returned.
C30_StopIsCooperativeNotLatched == [](ReturnsNewestBest) /\ [][StopIsCooperative]_vars

\* C30 witness: the second callback requested the stop, the third brought a
\* better solution with another tour, and that tour was returned.
C30_Witness ==
  /\ pc = "returned"
  /\ Len(solutions) = 3
  /\ 2 \in stopSignals
  /\ didHitImprovementTimeout
  /\ solutions[3].objectiveValue < bestSolutions[2].objectiveValue
  /\ solutions[3].nodeIndices # bestSolutions[2].nodeIndices
  /\ bestSolutions[3] = solutions[3]
  /\ result = solutions[3].nodeIndices

\* the arc cost the solver gets for two nodes, counted from 0
ArcCost(fromNode, toNode) == TravelingSalespersonDistanceCallback(integerDistanceMatrix, fromNode, toNode)

\* C24: the cost matrix handed to the optimizer is (n+1) x (n+1); for real
\* nodes i, j < n its entry is the largest integer that is at most 1000 times
\* the distance d[i][j]; every entry in row n and in column n is 0; node n is
\* the depot of the single vehicle; the matrix is symmetric with a zero
\* diagonal wherever the distance matrix is.
C24_CostMatrixScaledTruncatedWithZeroDepot ==
  dpc = "solving" =>
    LET n == Len(tracks)
    IN  /\ DOMAIN integerDistanceMatrix = (1 .. (n + 1)) \X (1 .. (n + 1))
        /\ routingIndexManager = [numberOfNodes |-> n + 1, numberOfVehicles |-> 1, depot |-> n]
        /\ \A i, j \in 0 .. (n - 1) :
             LET cost == ArcCost(i, j)
                 scaledSquare == ScaledSquare(distanceMatrix[<< i + 1, j + 1 >>])
             IN  /\ cost \in Nat
                 /\ cost * cost <= scaledSquare
                 /\ (cost + 1) * (cost + 1) > scaledSquare
                 /\ (distanceMatrix[<< i + 1, j + 1 >>] = distanceMatrix[<< j + 1, i + 1 >>])
                      => ArcCost(j, i) = cost
                 /\ (distanceMatrix[<< i + 1, j + 1 >>] = Zero) => cost = 0
        /\ \A i \in 0 .. n :
             /\ ArcCost(i, routingIndexManager.depot) = 0
             /\ ArcCost(routingIndexManager.depot, i) = 0

\* C24 witness: for two tracks the costs form a 3 x 3 matrix; the cost between
\* the two tracks is positive and truncated (1000 times the distance is no
\* integer), the diagonal and the depot's row and column are 0.
C24_Witness ==
  /\ dpc = "solving"
  /\ Len(tracks) = 2
  /\ routingIndexManager.depot = 2
  /\ ArcCost(0, 1) > 0
  /\ ArcCost(0, 1) = ArcCost(1, 0)
  /\ ArcCost(0, 1) * ArcCost(0, 1) < ScaledSquare(distanceMatrix[<< 1, 2 >>])
  /\ ArcCost(0, 0) = 0
  /\ ArcCost(1, 1) = 0
  /\ \A i \in 0 .. 2 : ArcCost(i, 2) = 0 /\ ArcCost(2, i) = 0

\* the key component as the claim states it
KeyComponent(self, other) ==
  IF (self.key # NoKey) /\ (other.key # NoKey) /\ IsCompatible(self.key, other.key) THEN Zero ELSE One

\* keys put in place of the keys of two tracks
SubstituteKeys == {NoKey, "cMajor", "aMinor", "dFlatMinor"}

\* C25: for a call on two distinct tracks with key weight > 0, the square of
\* the distance is the one under key weight 0 plus the key weight times the
\* key component, which is 0 when both keys are defined and compatible and 1
\* otherwise, also when one key or both are undefined; with key weight 0 the
\* distance is the same whatever the two keys are.
C25_KeyComponentOneUnlessDefinedAndCompatible ==
  \A i \in DOMAIN lastCall :
    LET self == lastCall[i].self
        other == lastCall[i].other
        withoutKey ==
          TrackComputeDistance(EmptyCache, self, other, [configuration EXCEPT !.keyWeight = 0])
    IN  (self.id # other.id /\ lastCall[i].raised = "none") =>
          /\ configuration.keyWeight > 0 =>
               /\ withoutKey.raised = "none"
               /\ lastCall[i].squared
                    = RAdd(withoutKey.squared,
                           RMul(Rat(configuration.keyWeight, 1), KeyComponent(self, other)))
               /\ (self.key = NoKey \/ other.key = NoKey) =>
                    lastCall[i].squared = RAdd(withoutKey.squared, Rat(configuration.keyWeight, 1))
          /\ configuration.keyWeight = 0 =>
               \A key1, key2 \in SubstituteKeys :
                 TrackComputeDistance(EmptyCache, [self EXCEPT !.key = key1],
                                      [other EXCEPT !.key = key2], configuration).squared
                   = lastCall[i].squared

\* C25 witness: under the artist weight 5 and the key weight 3 alone, a call on
\* two distinct tracks without key and without a common artist returned sqrt(3).
C25_Witness ==
  \E i \in DOMAIN lastCall :
    /\ configuration = Weights(0, 0, 5, 0, 0, 0, 3, 0, 0, 0, 0)
    /\ lastCall[i].self.id # lastCall[i].other.id
    /\ lastCall[i].self.key = NoKey
    /\ lastCall[i].other.key = NoKey
    /\ Range(lastCall[i].self.artistIDs) \cap Range(lastCall[i].other.artistIDs) = {}
    /\ lastCall[i].raised = "none"
    /\ lastCall[i].squared = Rat(3, 1)

\* the two tracks have an artist id in common
SharesArtist(self, other) == Range(self.artistIDs) \cap Range(other.artistIDs) # {}

\* C26: for a call on two distinct tracks with differentArtist weight > 0, the
\* square of the distance is the one under differentArtist weight 0 plus the
\* weight times the component, which is 1 if the tracks share an artist id and
\* 0 if they share none: a shared artist makes the distance strictly larger,
\* all else equal.
C26_SharedArtistIsFarther ==
  \A i \in DOMAIN lastCall :
    LET self == lastCall[i].self
        other == lastCall[i].other
        withoutArtist ==
          TrackComputeDistance(EmptyCache, self, other, [configuration EXCEPT !.differentArtistWeight = 0])
    IN  (self.id # other.id /\ lastCall[i].raised = "none" /\ configuration.differentArtistWeight > 0) =>
          /\ withoutArtist.raised = "none"
          /\ SharesArtist(self, other) =>
               /\ lastCall[i].squared
                    = RAdd(withoutArtist.squared, Rat(configuration.differentArtistWeight, 1))
               /\ RLess(withoutArtist.squared, lastCall[i].squared)
          /\ ~SharesArtist(self, other) => lastCall[i].squared = withoutArtist.squared

\* C26 witness: under the default weights, a call on two tracks that differ in
\* the id alone, and so share their artist, returned sqrt(5), where the
\* distance without the artist weight is 0.
C26_Witness ==
  \E i \in DOMAIN lastCall :
    /\ configuration = DefaultConfiguration
    /\ lastCall[i].self.id # lastCall[i].other.id
    /\ lastCall[i].self.artistIDs = << "a1" >>
    /\ lastCall[i].other.artistIDs = << "a1" >>
    /\ lastCall[i].raised = "none"
    /\ lastCall[i].squared = Rat(5, 1)

\* C27: every entry of the genre-distance cache has a key of one or two genres
\* and holds what a computation without cache returns for these genres in
\* either order (unknown included); a call on the cache returns what a call
\* without cache returns, leaves the entries of the cache as they are and adds
\* at most the entry of its pair.
C27_GenreCacheCoherent ==
  /\ \A cacheKey \in DOMAIN cache :
       /\ Cardinality(cacheKey) \in {1, 2}
       /\ \A g, h \in cacheKey :
            (cacheKey = {g, h}) => cache[cacheKey] = GenreComputeDistance(EmptyCache, g, h).value
  /\ \A g, h \in GenreLabels :
       LET onCache == GenreComputeDistance(cache, g, h)
       IN  /\ onCache.value = GenreComputeDistance(EmptyCache, g, h).value
           /\ DOMAIN onCache.cache = DOMAIN cache \cup { {g, h} }
           /\ \A cacheKey \in DOMAIN cache : onCache.cache[cacheKey] = cache[cacheKey]

\* C27 witness: a Track.ComputeDistance call asked for (rock, jazz) and
\* (pop, vaporwave); the cache holds 1/2 and unknown for them, the calls with
\* the genres in the other order are answered from it with the same values,
\* and the cache stays as it is.
C27_Witness ==
  /\ {"rock", "jazz"} \in DOMAIN cache
  /\ cache[{"rock", "jazz"}] = Rat(1, 2)
  /\ {"pop", "vaporwave"} \in DOMAIN cache
  /\ cache[{"pop", "vaporwave"}] = NoneDistance
  /\ GenreComputeDistance(cache, "jazz", "rock") = [value |-> Rat(1, 2), cache |-> cache]
  /\ GenreComputeDistance(cache, "vaporwave", "pop") = [value |-> NoneDistance, cache |-> cache]
  /\ GenreComputeDistance(EmptyCache, "jazz", "rock").value = Rat(1, 2)

\* CollectInputTracks has ended
CollectEnded == cpc \in {"returned", "raised"}

\* the weights mix None with numbers
MixedWeights ==
  /\ \E i \in DOMAIN playlistWeights : playlistWeights[i].isNone
  /\ \E i \in DOMAIN playlistWeights : ~playlistWeights[i].isNone

\* the ids collected from input playlist i, in the order collected
CollectedOf(i) == SelectSeq(collectedTrackIDs, LAMBDA trackID : trackID[1] = i)

\* C21: when the weights mix None with numeric weights, CollectInputTracks
\* completes without error and its result includes all track ids of every
\* playlist with weight None.
C21_MixedWeightsCompleteWithAllOfStarPlaylists ==
  (CollectEnded /\ MixedWeights) =>
    /\ cpc = "returned"
    /\ collectRaised = "none"
    /\ \A i \in DOMAIN playlistWeights :
         playlistWeights[i].isNone => Range(trackIDsOfPlaylists[i]) \subseteq collectReturned

\* every input playlist has a numeric weight > 0
AllWeightsPositive ==
  \A i \in DOMAIN playlistWeights : ~playlistWeights[i].isNone /\ playlistWeights[i].value > 0

\* n is L * w / wc rounded to the nearest integer, a half to the even one
IsRounded(n, L, w, wc) ==
  /\ 2 * n * wc <= (2 * L * w) + wc
  /\ 2 * n * wc >= (2 * L * w) - wc
  /\ ((2 * n * wc = (2 * L * w) + wc) \/ (2 * n * wc = (2 * L * w) - wc)) => n % 2 = 0

\* C22: when every input playlist has a numeric weight > 0, CollectInputTracks
\* returns; the critical playlist c is one with the smallest length / weight;
\* from playlist i it takes round(L * w_i / w_c) of its ids, L the length of
\* c, each id once; this number is at most the length of playlist i and is L
\* for c, and with all weights 1 it is the same for every playlist.
C22_NumberOfSongsProportionalToWeight ==
  (CollectEnded /\ AllWeightsPositive) =>
    /\ cpc = "returned"
    /\ criticalPlaylistIndex \in DOMAIN playlistWeights
    /\ LET c == criticalPlaylistIndex
           L == Len(trackIDsOfPlaylists[c])
           wc == playlistWeights[c].value
       IN  /\ \A i \in DOMAIN playlistWeights :
                /\ L * playlistWeights[i].value <= Len(trackIDsOfPlaylists[i]) * wc
                /\ IsRounded(numbersOfSongs[i], L, playlistWeights[i].value, wc)
                /\ numbersOfSongs[i] <= Len(trackIDsOfPlaylists[i])
                /\ Len(CollectedOf(i)) = numbersOfSongs[i]
                /\ Cardinality(Range(CollectedOf(i))) = numbersOfSongs[i]
                /\ Range(CollectedOf(i)) \subseteq Range(trackIDsOfPlaylists[i])
           /\ numbersOfSongs[c] = L
           /\ Range(CollectedOf(c)) = Range(trackIDsOfPlaylists[c])
           /\ (\A i \in DOMAIN playlistWeights : playlistWeights[i].value = 1) =>
                \A i \in DOMAIN playlistWeights : numbersOfSongs[i] = L
    /\ Len(collectedTrackIDs) = Cardinality(collectReturned)

\* C22 witness: two playlists with one and two ids and the weights 3 and 2;
\* the first is critical and taken entirely, and round(1 * 2 / 3) = 1 of the
\* two ids of the second is taken after the shuffle has put its second id
\* first.
C22_Witness ==
  /\ cpc = "returned"
  /\ playlistWeights = << Weight(3), Weight(2) >>
  /\ Len(trackIDsOfPlaylists[1]) = 1
  /\ trackIDsOfPlaylists[2] = << << 2, 2 >>, << 2, 1 >> >>
  /\ criticalPlaylistIndex = 1
  /\ numbersOfSongs = << 1, 1 >>
  /\ collectedTrackIDs = << << 1, 1 >>, << 2, 2 >> >>

====
